---------------------------- MODULE Spec2Model ----------------------------
(***************************************************************************)
(* A model of darvaza.org/resolver: the NS delegation cache (NSCache and   *)
(* NSCacheZone), the iterative lookuper (IteratorLookuper) and the         *)
(* single-flight client (pkg/client.SingleFlight).                         *)
(*                                                                         *)
(* The specifications share the variables:                                 *)
(*   SpecCache  the public operations of one NSCache                       *)
(*   SpecSF     concurrent callers of one client.SingleFlight              *)
(*   SpecRSF    concurrent callers of one resolver.SingleFlight            *)
(*   SpecIter   one IteratorLookuper, its lookups and its bootstrap calls  *)
(*   SpecZone   the methods of one NSCacheZone                             *)
(*   SpecErrors the conversions of package errors, the sanitizer of        *)
(*              delegations and newManualZone                              *)
(*   SpecZoneMu goroutines sharing one NSCacheZone and its mutex           *)
(*   SpecWP     the workers and the callers of one client.WorkerPool       *)
(*   SpecMulti  one MultiLookuper.Lookup and its goroutines                *)
(*   SpecServer the shutdown of one server.Server                          *)
(*   SpecPool   one Exchange of a Pool and its attempts                    *)
(*                                                                         *)
(* Strings are modelled by their structure.  A domain name is a record     *)
(* [labels, dot]: the labels as written (case kept) and whether the text   *)
(* ends in a dot, so that dns.Fqdn, lower-casing and dns.Split act on it   *)
(* as they act on the text.  A time is a record [s, ns] (seconds and       *)
(* nanoseconds) and so is a time.Duration, so that time.Duration(10) and   *)
(* 10 * time.Second differ as they do in Go.                               *)
(***************************************************************************)
EXTENDS Integers, Sequences, FiniteSets, TLC

VARIABLES
    \* ---- NSCache (src/cache_ns_test.go:296-304) and the wall clock
    lru,          \* nsc.lru: the entries, most recently used first
    persistent,   \* nsc.persistent: the names flagged for restore
    maxSize,      \* the capacity given to simplelru.NewLRU
    now,          \* time.Now()
    overflow,     \* TRUE once an eviction callback recursed without end
    last,         \* the last NSCache call and what it returned
    pend,         \* the persistent zone removed by the last Evict call
    \* ---- client.SingleFlight (src/pkg/client/singleflight.go:24-28)
    sfExp,        \* sfc.exp, in seconds
    gm,           \* sfc.g.m: key -> call
    calls,        \* the singleflight call each caller runs
    timers,       \* the pending deferred-expiration goroutines of each key
    sfpc,         \* where each caller is
    sfReq,        \* each caller's request: [id, key]
    sfCall,       \* the caller whose call each caller runs or waits for
    sfRet,        \* what ExchangeContext returned to each caller
    sfRounds,     \* ExchangeContext calls started so far
    \* ---- IteratorLookuper (src/iterator.go:111-115)
    aaaa,         \* r.aaaa
    tasks,        \* the goroutines running a Lookup: their frames
    crashed,      \* TRUE once a goroutine panicked
    glueFail,     \* per task, the zone whose glue fill ended without glue
    \* ---- one NSCacheZone in the hands of its owner (src/cache_ns_zone.go:23-36)
    ownZone,      \* the zone
    ownLast,      \* the last method called on it, its arguments and results
    \* ---- package errors (src/pkg/errors/transform.go)
    conv,         \* the last conversion done: its arguments and its result
    \* ---- the mutex of the NSCacheZone (src/cache_ns_zone.go:24)
    zmu,          \* who holds zone.mu, and where the goroutines using the zone are
    \* ---- client.WorkerPool (src/pkg/client/pool.go:24-34)
    wp,           \* wp.ch, wp.cancelled, the workers and the callers
    \* ---- MultiLookuper.Lookup (src/multiple.go:18-66)
    ml,           \* the caller, ch, done and the goroutines of one Lookup
    \* ---- server.Server (src/pkg/server/server.go:24-43)
    srv,          \* the workers, srv.cancelled and the ShutdownWithTimeout calls
    \* ---- Pool (src/unnamed/part_015:134-151)
    pl            \* one Exchange: Attempts, Interval, its loop and its goroutines

cacheVars == <<lru, persistent, maxSize, now, overflow, last, pend>>
sfVars == <<sfExp, gm, calls, timers, sfpc, sfReq, sfCall, sfRet, sfRounds>>
iterVars == <<aaaa, tasks, crashed, glueFail>>
zoneVars == <<ownZone, ownLast>>
goVars == <<zmu, wp, ml, srv, pl>>
vars == <<lru, persistent, maxSize, now, overflow, last, pend,
          sfExp, gm, calls, timers, sfpc, sfReq, sfCall, sfRet, sfRounds,
          aaaa, tasks, crashed, glueFail, ownZone, ownLast, conv,
          zmu, wp, ml, srv, pl>>

None == [none |-> TRUE]

(***************************************************************************)
(* Sequences                                                               *)
(***************************************************************************)
Range(s) == {s[i] : i \in 1..Len(s)}

RECURSIVE SeqSum(_)
SeqSum(s) == IF s = <<>> THEN 0 ELSE Head(s) + SeqSum(Tail(s))

RemoveAt(s, i) == SubSeq(s, 1, i - 1) \o SubSeq(s, i + 1, Len(s))

\* the sequences that list every element of the finite set S once
Orders(S) == {o \in [1..Cardinality(S) -> S] : Range(o) = S}

(***************************************************************************)
(* Time                                                                    *)
(***************************************************************************)
NanosPerSecond == 1000000000

Dur(sec, nsec) == [s |-> sec, ns |-> nsec]

\* time.Duration(n): n nanoseconds
Nanoseconds(n) == Dur(n \div NanosPerSecond, n % NanosPerSecond)

\* time.Duration(n) * time.Second
Seconds(n) == Dur(n, 0)

\* t.Add(d)
TimeAdd(t, d) ==
    LET n == t.ns + d.ns
    IN  Dur(t.s + d.s + (n \div NanosPerSecond), n % NanosPerSecond)

\* the zero time.Time
ZeroTime == Dur(0 - 1, 0)

(***************************************************************************)
(* Domain names                                                            *)
(***************************************************************************)
N(ls, d) == [labels |-> ls, dot |-> d]

Root == N(<<>>, TRUE)

EmptyName == N(<<>>, FALSE)

LowerLabels(ls) ==
    LET \* strings.ToLower on one label
        ToLower(l) ==
            CASE l = "COM" -> "com"
              [] l = "X" -> "x"
              [] OTHER -> l
    IN
    [i \in 1..Len(ls) |-> ToLower(ls[i])]

\* dns.Fqdn: the name itself when it ends in a dot, else the name and a dot
Fqdn(n) == IF n.dot THEN n ELSE N(n.labels, TRUE)

\* the canonical form of the specification: lower case, dot-terminated
Canonical(n) == N(LowerLabels(n.labels), TRUE)

\* dns.IsSubDomain(parent, child): label-wise, case-insensitive
IsSubDomain(parent, child) ==
    LET p == LowerLabels(parent.labels)
        c == LowerLabels(child.labels)
    IN  /\ Len(p) <= Len(c)
        /\ SubSeq(c, Len(c) - Len(p) + 1, Len(c)) = p

(***************************************************************************)
(* Addresses                                                               *)
(***************************************************************************)
V4a == "192.0.2.1"
V4b == "192.0.2.2"
V6a == "2001:db8::1"

ValidAddrs == {V4a, V4b, V6a}

\* netip.Addr.Is4
Is4(a) == a \in {V4a, V4b}

\* the order of netip.Addr.Compare: IPv4 before IPv6, then by value
AddrRank(a) ==
    CASE a = V4a -> 1
      [] a = V4b -> 2
      [] OTHER -> 3

RECURSIVE InsertSorted(_, _)
InsertSorted(s, a) ==
    IF s = <<>> THEN <<a>>
    ELSE IF AddrRank(a) < AddrRank(Head(s)) THEN <<a>> \o s
    ELSE <<Head(s)>> \o InsertSorted(Tail(s), a)

RECURSIVE nsCacheSortAddr(_)
nsCacheSortAddr(addrs) ==
    IF addrs = <<>> THEN <<>>
    ELSE InsertSorted(nsCacheSortAddr(Tail(addrs)), Head(addrs))

(***************************************************************************)
(* NSCacheZone (src/cache_ns_zone.go)                                      *)
(***************************************************************************)
MinimumNSCacheTTL == 10

\* NewNSCacheZone: only the trailing dot is added to the name
NewNSCacheZone(name) ==
    [name |-> IF name = EmptyName THEN name ELSE Fqdn(name),
     ns |-> <<>>,
     glue |-> <<>>,
     ttl |-> 0,
     until |-> ZeroTime,
     halfLife |-> ZeroTime,
     s |-> {}]

\* the glue of a name, as a map read gives it: empty for a missing key
GlueOf(zone, name) ==
    IF name \in DOMAIN zone.glue THEN zone.glue[name] ELSE <<>>

\* AddNS registers the name with an empty glue slot
AddNSOk(zone, name) ==
    /\ name # EmptyName
    /\ name # Root
    /\ Fqdn(name) \notin DOMAIN zone.glue

AddNS(zone, name) ==
    IF AddNSOk(zone, name)
    THEN [zone EXCEPT !.ns = Append(@, Fqdn(name)),
                      !.glue = (Fqdn(name) :> <<>>) @@ @]
    ELSE zone

\* the addresses of addrs that the slot s does not hold, in order
NewAddrs(s, addrs) ==
    SelectSeq(addrs, LAMBDA a : a \notin Range(s))

AddGlueOk(zone, name, addrs) ==
    /\ name \in DOMAIN zone.glue
    /\ NewAddrs(zone.glue[name], addrs) # <<>>

\* AddGlue: every new address is appended to the slot as it was on entry
\* (s is read once, before the loop), so of several new addresses the last
\* one stays
AddGlue(zone, name, addrs) ==
    IF AddGlueOk(zone, name, addrs)
    THEN LET s == zone.glue[name]
             fresh == NewAddrs(s, addrs)
         IN  [zone EXCEPT !.glue[name] = Append(s, fresh[Len(fresh)])]
    ELSE zone

SetGlue(zone, name, addrs) ==
    IF name \in DOMAIN zone.glue
    THEN [zone EXCEPT !.glue[name] = addrs]
    ELSE zone

AddGlueNS(zone, name, addrs) == AddGlue(AddNS(zone, name), name, addrs)

\* Len: the NS names plus the keys of the glue map
ZoneLen(zone) == Len(zone.ns) + Cardinality(DOMAIN zone.glue)

\* HasGlue is not among the sources: some NS has at least one address
HasGlue(zone) == \E n \in DOMAIN zone.glue : zone.glue[n] # <<>>

unsafeSetTTL(zone, ttl, half) ==
    [zone EXCEPT !.ttl = ttl,
                 !.until = TimeAdd(now, Seconds(ttl)),
                 !.halfLife = TimeAdd(now, Seconds(half))]

\* SetTTL as it would be without the test "half >= ttl"
SetTTLKeepHalf(zone, ttl, half) ==
    LET ttl1 == IF ttl < MinimumNSCacheTTL THEN MinimumNSCacheTTL ELSE ttl
        half1 == IF ttl = 0 /\ half = 0 THEN ttl1 \div 2 ELSE half
    IN  unsafeSetTTL(zone, ttl1, half1)

SetTTL(zone, ttl, half) ==
    LET ttl1 == IF ttl < MinimumNSCacheTTL THEN MinimumNSCacheTTL ELSE ttl
        half1 == IF ttl = 0 /\ half = 0 THEN ttl1 \div 2 ELSE half
        half2 == IF half1 >= ttl1 THEN ttl1 \div 2 ELSE half1
    IN  unsafeSetTTL(zone, ttl1, half2)

\* uint32 of the whole seconds of the longest time.Duration, which is what
\* now.Sub gives for a zone whose until is the zero time
SaturatedTTL == 633437444

\* TTL: duration := now.Sub(zone.until); the whole seconds of the duration
\* when it is positive, else 0
TTL(zn) ==
    IF zn.until = ZeroTime THEN SaturatedTTL
    ELSE IF now.s > zn.until.s \/ (now.s = zn.until.s /\ now.ns > zn.until.ns)
    THEN now.s - zn.until.s - (IF now.ns < zn.until.ns THEN 1 ELSE 0)
    ELSE 0

\* Index (unsafeIndex is Index without taking the zone's lock)
Index(zone) ==
    LET \* nsCacheGlueMap: one "ip:53" server per glue address
        nsCacheGlueMap(glue) == UNION {Range(glue[n]) : n \in DOMAIN glue}
    IN
    LET z1 == IF zone.ttl = 0
              THEN unsafeSetTTL(zone, MinimumNSCacheTTL, MinimumNSCacheTTL \div 2)
              ELSE zone
        g == [n \in DOMAIN z1.glue |-> nsCacheSortAddr(z1.glue[n])]
    IN  [z1 EXCEPT !.glue = g, !.s = nsCacheGlueMap(g)]

\* assembleNSCacheZoneFromMap: m maps NS names to address texts; order is
\* the order in which the Go map is walked
RECURSIVE assembleFromMap(_, _, _)
assembleFromMap(zone, m, order) ==
    IF order = <<>> THEN zone
    ELSE LET k == Head(order)
             z1 == IF m[k] \in ValidAddrs
                   THEN AddGlueNS(zone, Fqdn(k), <<m[k]>>)
                   ELSE zone
         IN  assembleFromMap(z1, m, Tail(order))

NewNSCacheZoneFromMap(name, ttl, m, order) ==
    LET ttl1 == IF ttl < MinimumNSCacheTTL THEN MinimumNSCacheTTL ELSE ttl
        zone == assembleFromMap(NewNSCacheZone(Fqdn(name)), m, order)
    IN  SetTTL(zone, ttl1, ttl1 \div 2)

\* the (name, NS names, glue) of a zone
Triple(zone) == [name |-> zone.name, ns |-> zone.ns, glue |-> zone.glue]

\* the records of a zone as the specification counts them: every NS name
\* and every glue address
Records(zone) ==
    Len(zone.ns) + SeqSum([i \in 1..Len(zone.ns) |-> Len(GlueOf(zone, zone.ns[i]))])

(***************************************************************************)
(* The LRU of darvaza.org/cache/x/simplelru as NSCache uses it.  The       *)
(* package is not among the sources; it is modelled from the contract the  *)
(* cache relies on: entries carry a size and an expiration, Add places the *)
(* entry in front and evicts from the back until the sizes fit, Get moves  *)
(* the entry to the front and drops an entry whose expiration has passed,  *)
(* and every removal runs the eviction callback.                           *)
(***************************************************************************)
LruHas(l, key) == \E i \in 1..Len(l) : l[i].key = key

LruIndex(l, key) == CHOOSE i \in 1..Len(l) : l[i].key = key

LruTotal(l) == SeqSum([i \in 1..Len(l) |-> l[i].size])

\* the entry has an expiration and it is before now
Expired(e) ==
    /\ e.expire # ZeroTime
    /\ e.expire.s < now.s \/ (e.expire.s = now.s /\ e.expire.ns < now.ns)

RECURSIVE LruAdd(_, _, _, _, _)
RECURSIVE LruPrune(_)
RECURSIVE onLRUEvict(_, _)

\* NSCache.onLRUEvict, called with the entry e already removed from l
onLRUEvict(l, e) ==
    LET \* the expiration onLRUEvict gives a restored zone:
        \* time.Now().UTC().Add(MinimumNSCacheTTL), a time.Duration of 10
        RestoreExpire == TimeAdd(now, Nanoseconds(MinimumNSCacheTTL))
    IN
    IF e.key \in persistent /\ ~LruHas(l, e.key)
    THEN LruAdd(l, e.value.name, e.value, ZoneLen(e.value), RestoreExpire)
    ELSE l

LruPrune(l) ==
    IF LruTotal(l) <= maxSize \/ l = <<>> THEN l
    ELSE LruPrune(onLRUEvict(SubSeq(l, 1, Len(l) - 1), l[Len(l)]))

LruInsert(l, key, value, size, expire) ==
    LET e == [key |-> key, value |-> value, size |-> size, expire |-> expire]
    IN  IF LruHas(l, key)
        THEN <<e>> \o RemoveAt(l, LruIndex(l, key))
        ELSE <<e>> \o l

LruAdd(l, key, value, size, expire) ==
    LruPrune(LruInsert(l, key, value, size, expire))

\* Get: [ok, value, expire, lru]
LruGet(l, key) ==
    IF ~LruHas(l, key)
    THEN [ok |-> FALSE, value |-> None, expire |-> ZeroTime, lru |-> l]
    ELSE LET i == LruIndex(l, key)
             e == l[i]
         IN  IF Expired(e)
             THEN [ok |-> FALSE, value |-> None, expire |-> ZeroTime,
                   lru |-> onLRUEvict(RemoveAt(l, i), e)]
             ELSE [ok |-> TRUE, value |-> e.value, expire |-> e.expire,
                   lru |-> <<e>> \o RemoveAt(l, i)]

LruEvict(l, key) ==
    IF LruHas(l, key)
    THEN LET i == LruIndex(l, key) IN onLRUEvict(RemoveAt(l, i), l[i])
    ELSE l

(***************************************************************************)
(* NSCache (src/cache_ns_test.go:265-546)                                  *)
(***************************************************************************)
DefaultNSCacheSize == 1024

\* Suffixes: the text from each label start on, then "."
Suffixes(qName) ==
    [i \in 1..Len(qName.labels) |->
        N(SubSeq(qName.labels, i, Len(qName.labels)), qName.dot)] \o <<Root>>

\* Lookup walks the suffixes, longest first: [ok, value, lru]
RECURSIVE LookupFrom(_, _)
LookupFrom(l, names) ==
    IF names = <<>> THEN [ok |-> FALSE, value |-> None, lru |-> l]
    ELSE LET g == LruGet(l, Head(names))
         IN  IF g.ok THEN [ok |-> TRUE, value |-> g.value, lru |-> g.lru]
             ELSE LookupFrom(g.lru, Tail(names))

NSCacheLookup(l, qName) == LookupFrom(l, Suffixes(qName))

\* the names of the zones the cache holds
Cached(l) == {l[i].key : i \in 1..Len(l)}

(***************************************************************************)
(* The inputs of the NSCache specification                                 *)
(***************************************************************************)
SmallCache == 4
ShortStep == 11
MaxNanos == 11

nsA == N(<<"ns1", "com">>, FALSE)

\* the names zones are added under: "." and "COM"
AddNames == {Root, N(<<"COM">>, FALSE)}

\* the maps given to AddMap
AddMaps == {(nsA :> V4a)}

\* the names given to Get, Evict and SetPersistence
KeyNames == {Root, N(<<"COM">>, TRUE), N(<<"x", "com">>, TRUE)}

\* what a call returned; canon is what Lookup gives for the canonical form
\* of the same name on the same cache
Result(op, q, ok, value) ==
    LET r == NSCacheLookup(lru, Canonical(q))
    IN  [op |-> op, q |-> q, ok |-> ok,
         value |-> IF value = None THEN None ELSE Triple(value),
         canon |-> IF op = "Lookup"
                   THEN [ok |-> r.ok, value |-> IF r.ok THEN Triple(r.value) ELSE None]
                   ELSE None,
         pend |-> pend]

(***************************************************************************)
(* The operations of NSCache                                               *)
(***************************************************************************)
\* NSCache.Add (src/cache_ns_test.go:381-394) on the cache l:
\* [ok, lru, overflow, zone]
AddOutcome(l, zone) ==
    LET \* NSCacheZone.IsValid
        IsValid(zn) ==
            /\ Len(zn.ns) # 0
            /\ Cardinality(DOMAIN zn.glue) # 0
            /\ zn.name # EmptyName
        \* doAdd
        doAdd(c, zn, expire) == LruAdd(c, zn.name, zn, ZoneLen(zn), expire)
        \* the sizes a pruning loop can never drop: every persistent entry
        \* comes back
        PinnedTotal(c) ==
            SeqSum([i \in 1..Len(c) |-> IF c[i].key \in persistent THEN c[i].size ELSE 0])
        \* Add never returns: each eviction restores and each restore evicts
        LruDiverges(c) == LruTotal(c) > maxSize /\ PinnedTotal(c) > maxSize
        doAddDiverges(c, zn, expire) ==
            LruDiverges(LruInsert(c, zn.name, zn, ZoneLen(zn), expire))
    IN
    IF ~IsValid(zone)
    THEN [ok |-> FALSE, lru |-> l, overflow |-> FALSE, zone |-> None]
    ELSE LET z == Index(zone)
         IN  IF doAddDiverges(l, z, z.until)
             THEN [ok |-> FALSE, lru |-> l, overflow |-> TRUE, zone |-> None]
             ELSE [ok |-> TRUE, lru |-> doAdd(l, z, z.until), overflow |-> FALSE, zone |-> z]

NSCacheAdd(zone) ==
    LET a == AddOutcome(lru, zone)
    IN  /\ lru' = a.lru
        /\ overflow' = a.overflow
        /\ last' = Result("Add", zone.name, a.ok, a.zone)

CacheAdd ==
    LET \* zones assembled by the caller of Add: an NS without glue, three NS
        \* without glue (more records than SmallCache), an NS with two addresses,
        \* and a zone without a name
        UserZones ==
            {AddNS(NewNSCacheZone(N(<<"x", "com">>, TRUE)), Fqdn(nsA)),
             AddNS(AddNS(AddNS(NewNSCacheZone(N(<<"x", "com">>, TRUE)), Fqdn(nsA)),
                         N(<<"ns2", "com">>, TRUE)), N(<<"ns3", "com">>, TRUE)),
             AddGlue(AddGlueNS(NewNSCacheZone(N(<<"x", "com">>, TRUE)), Fqdn(nsA), <<V4a>>),
                     Fqdn(nsA), <<V4b>>),
             AddGlueNS(NewNSCacheZone(EmptyName), Fqdn(nsA), <<V4a>>)}
    IN
    /\ ~overflow
    /\ \E zone \in UserZones : NSCacheAdd(zone)
    /\ pend' = None
    /\ UNCHANGED <<persistent, maxSize, now>>

\* NSCache.AddMap (src/cache_ns_test.go:375-379)
CacheAddMap ==
    /\ ~overflow
    /\ \E name \in AddNames, m \in AddMaps :
         \E order \in Orders(DOMAIN m) :
            NSCacheAdd(NewNSCacheZoneFromMap(name, 0, m, order))
    /\ pend' = None
    /\ UNCHANGED <<persistent, maxSize, now>>

\* NSCache.Evict (src/cache_ns_test.go:396-402)
CacheEvict ==
    /\ ~overflow
    /\ \E name \in KeyNames :
         /\ lru' = LruEvict(lru, name)
         /\ last' = Result("Evict", name, LruHas(lru, name), None)
         /\ pend' = IF /\ LruHas(lru, name)
                       /\ name \in persistent
                       /\ ~Expired(lru[LruIndex(lru, name)])
                    THEN [name |-> name,
                          triple |-> Triple(lru[LruIndex(lru, name)].value),
                          at |-> now]
                    ELSE None
    /\ UNCHANGED <<persistent, maxSize, now, overflow>>

\* NSCache.Lookup (src/cache_ns_test.go:408-421)
CacheLookup ==
    LET \* the names looked up
        QNames ==
            {Root, N(<<"COM">>, TRUE), N(<<"x", "com">>, TRUE), N(<<"x", "com">>, FALSE),
             N(<<"x", "COM">>, TRUE)}
    IN
    /\ ~overflow
    /\ \E qName \in QNames :
         LET r == NSCacheLookup(lru, qName)
         IN  /\ lru' = r.lru
             /\ last' = Result("Lookup", qName, r.ok, r.value)
    /\ pend' = None
    /\ UNCHANGED <<persistent, maxSize, now, overflow>>

\* NSCache.Get (src/cache_ns_test.go:423-429)
CacheGet ==
    /\ ~overflow
    /\ \E qName \in KeyNames :
         LET r == LruGet(lru, qName)
         IN  /\ lru' = r.lru
             /\ last' = Result("Get", qName, r.ok, r.value)
    /\ pend' = None
    /\ UNCHANGED <<persistent, maxSize, now, overflow>>

\* NSCache.SetPersistence (src/cache_ns_test.go:433-451)
CacheSetPersistence ==
    /\ ~overflow
    /\ \E qName \in KeyNames, flag \in BOOLEAN :
         IF ~flag
         THEN /\ persistent' = persistent \ {qName}
              /\ last' = Result("SetPersistence", qName, TRUE, None)
              /\ UNCHANGED lru
         ELSE LET r == LruGet(lru, qName)
              IN  /\ lru' = r.lru
                  /\ persistent' = IF r.ok THEN persistent \cup {qName} ELSE persistent
                  /\ last' = Result("SetPersistence", qName, r.ok, None)
    /\ pend' = None
    /\ UNCHANGED <<maxSize, now, overflow>>

\* time passes
Advance ==
    /\ now.s = 0
    /\ now.ns + ShortStep <= MaxNanos
    /\ now' = TimeAdd(now, Nanoseconds(ShortStep))
    /\ UNCHANGED <<lru, persistent, maxSize, overflow, last, pend>>

(***************************************************************************)
(* client.SingleFlight (src/pkg/client/singleflight.go) over               *)
(* golang.org/x/sync/singleflight.  A response is [obj, id]: obj names the *)
(* dns.Msg value in memory, so that a copy differs from its original.      *)
(***************************************************************************)
DefaultSingleFlightExpiration == 1

NumCallers == 2
MaxRounds == 3

Callers == 1..NumCallers

\* dns.Id(): an ID that no caller chose
dnsId == NumCallers + 1

SFServers == {"s1", "s2"}

SFKeys == {[q |-> "q", server |-> server] : server \in SFServers}

\* Export as it would be without "res.Id = req.Id"
ExportKeepId(res, req, shared, c) ==
    IF shared /\ res # None
    THEN [obj |-> [kind |-> "copy", n |-> c], id |-> res.id]
    ELSE res

\* sfResult.Export for the caller c
Export(res, req, shared, c) ==
    IF shared /\ res # None
    THEN [obj |-> [kind |-> "copy", n |-> c], id |-> req.id]
    ELSE res

\* Group.Forget
Forget(key) == [k \in DOMAIN gm \ {key} |-> gm[k]]

\* ExchangeContext up to Group.Do: the reply to a request without a
\* question, else join the call registered for the key or register one
SFBegin(c) ==
    LET \* RequestKey: the request without its Id, and the server
        RequestKey(req, server) == [q |-> req.q, server |-> server]
    IN
    /\ sfpc[c] \in {"idle", "returned"}
    /\ sfRounds < MaxRounds
    /\ sfRounds' = sfRounds + 1
    /\ \E id \in {0, c}, nq \in 0..1, server \in SFServers :
         IF nq = 0
         THEN /\ server = "s1"
              /\ sfReq' = [sfReq EXCEPT ![c] = [id |-> id, q |-> "none", server |-> server,
                                                cancelled |-> FALSE]]
              /\ sfRet' = [sfRet EXCEPT ![c] =
                              [res |-> [obj |-> [kind |-> "reply", n |-> c], id |-> id],
                               err |-> FALSE, shared |-> FALSE, waited |-> FALSE,
                               orig |-> None]]
              /\ sfpc' = [sfpc EXCEPT ![c] = "returned"]
              /\ UNCHANGED <<gm, calls, sfCall>>
         ELSE LET req == [id |-> IF id = 0 THEN dnsId ELSE id, q |-> "q", server |-> server,
                          cancelled |-> FALSE]
                  key == RequestKey(req, server)
              IN  /\ sfReq' = [sfReq EXCEPT ![c] = req]
                  /\ sfRet' = [sfRet EXCEPT ![c] = None]
                  /\ IF key \in DOMAIN gm
                     THEN /\ calls' = [calls EXCEPT ![gm[key]].dups = @ + 1]
                          /\ sfCall' = [sfCall EXCEPT ![c] = gm[key]]
                          /\ sfpc' = [sfpc EXCEPT ![c] = "waiting"]
                          /\ UNCHANGED gm
                     ELSE /\ calls' = [calls EXCEPT ![c] =
                                          [key |-> key, val |-> None, err |-> FALSE, dups |-> 0]]
                          /\ gm' = (key :> c) @@ gm
                          /\ sfCall' = [sfCall EXCEPT ![c] = c]
                          /\ sfpc' = [sfpc EXCEPT ![c] = "exchanging"]
    /\ UNCHANGED <<sfExp, timers>>

\* the function given to Do: the wrapped client answers, doExchangeResult
\* wraps the answer and deferredExpiration arms the timer or forgets the key
SFExchanged(c) ==
    /\ sfpc[c] = "exchanging"
    /\ \E failed \in BOOLEAN :
         calls' = [calls EXCEPT ![c].val =
                                    IF failed THEN None
                                    ELSE [obj |-> [kind |-> "wire", n |-> c],
                                          id |-> sfReq[c].id],
                                ![c].err = failed]
    /\ IF sfExp > 0
       THEN /\ timers' = [timers EXCEPT ![calls[c].key] = @ + 1]
            /\ UNCHANGED gm
       ELSE /\ gm' = Forget(calls[c].key)
            /\ UNCHANGED timers
    /\ sfpc' = [sfpc EXCEPT ![c] = "finishing"]
    /\ UNCHANGED <<sfExp, sfReq, sfCall, sfRet, sfRounds>>

\* the end of Group.doCall and of doExchange for the caller that ran the
\* call: wg.Done() hands the result to the callers that wait
SFLeaderReturn(c) ==
    /\ sfpc[c] = "finishing"
    /\ LET key == calls[c].key
           Waiting(l) == {f \in Callers : sfpc[f] = "waiting" /\ sfCall[f] = l}
           raw == [res |-> calls[c].val, err |-> calls[c].err, shared |-> TRUE,
                   waited |-> TRUE, orig |-> calls[c].val]
       IN  /\ gm' = IF key \in DOMAIN gm /\ gm[key] = c THEN Forget(key) ELSE gm
           /\ sfRet' = [f \in Callers |->
                           IF f = c
                           THEN [res |-> Export(calls[c].val, sfReq[c], calls[c].dups > 0, c),
                                 err |-> calls[c].err, shared |-> calls[c].dups > 0,
                                 waited |-> FALSE, orig |-> calls[c].val]
                           ELSE IF f \in Waiting(c) THEN raw ELSE sfRet[f]]
           /\ sfpc' = [f \in Callers |->
                           IF f = c THEN "returned"
                           ELSE IF f \in Waiting(c) THEN "woken" ELSE sfpc[f]]
    /\ calls' = [calls EXCEPT ![c] = None]
    /\ UNCHANGED <<sfExp, timers, sfReq, sfCall, sfRounds>>

\* the end of Group.Do and of doExchange for a caller that waited
SFFollowerReturn(c) ==
    /\ sfpc[c] = "woken"
    /\ sfRet' = [sfRet EXCEPT ![c].res = Export(@, sfReq[c], TRUE, c)]
    /\ sfpc' = [sfpc EXCEPT ![c] = "returned"]
    /\ UNCHANGED <<sfExp, gm, calls, timers, sfReq, sfCall, sfRounds>>

\* the context of a caller that waits in Group.Do for another caller's call
\* is cancelled or reaches its deadline.  Do takes no context: the caller
\* stays in c.wg.Wait().  (The caller that runs the call has given its
\* context to the wrapped client, whose failure SFExchanged leaves free.)
SFCancel(c) ==
    /\ sfpc[c] = "waiting"
    /\ ~sfReq[c].cancelled
    /\ sfReq' = [sfReq EXCEPT ![c].cancelled = TRUE]
    /\ UNCHANGED <<sfExp, gm, calls, timers, sfpc, sfCall, sfRet, sfRounds>>

\* the goroutine of deferredExpiration: time.After(sfc.exp), then Forget
SFTimerFires(key) ==
    /\ timers[key] > 0
    /\ timers' = [timers EXCEPT ![key] = @ - 1]
    /\ gm' = Forget(key)
    /\ UNCHANGED <<sfExp, calls, sfpc, sfReq, sfCall, sfRet, sfRounds>>

(***************************************************************************)
(* resolver.SingleFlight (src/singleflight.go:29-149), the Exchanger that  *)
(* holds identical queries in front of another Exchanger.  It uses the     *)
(* variables of client.SingleFlight; a request is [id, q, wire, shrunk]:   *)
(* the ID the caller's message carries, the first question, the ID of the  *)
(* message handed to the next Exchanger and whether that message is the    *)
(* one-question copy of a longer request.                                  *)
(***************************************************************************)
RSFKeys == {[q |-> "q1"], [q |-> "q2"]}

\* exdns.RestoreReturn is not among the sources: without an original
\* request the response passes, else it is given the original's ID
RestoreReturn(original, resp) ==
    IF original # None /\ original.id # 0 /\ resp # None
    THEN [resp EXCEPT !.id = original.id]
    ELSE resp

\* the original Exchange keeps for RestoreReturn
RSFOriginal(req) == IF req.shrunk THEN req ELSE None

\* Exchange up to Group.Do: the reply to a request without a question; a
\* request with one question gets an ID if it has none; a longer request is
\* copied with a new ID and its first question
RSFBegin(c) ==
    LET \* DefaultSingleFlightHasher: the packed request with its Id cleared
        DefaultSingleFlightHasher(req) == [q |-> req.q]
    IN
    /\ sfpc[c] \in {"idle", "returned"}
    /\ sfRounds < MaxRounds
    /\ sfRounds' = sfRounds + 1
    /\ \E id \in {0, c}, nq \in 0..2, k \in RSFKeys :
         IF nq = 0
         THEN /\ k.q = "q1"
              /\ sfReq' = [sfReq EXCEPT ![c] = [id |-> id, q |-> "none", wire |-> id,
                                                shrunk |-> FALSE]]
              /\ sfRet' = [sfRet EXCEPT ![c] =
                              [res |-> [obj |-> [kind |-> "reply", n |-> c], id |-> id],
                               err |-> FALSE, shared |-> FALSE, waited |-> FALSE,
                               orig |-> None]]
              /\ sfpc' = [sfpc EXCEPT ![c] = "returned"]
              /\ UNCHANGED <<gm, calls, sfCall>>
         ELSE LET req == [id |-> IF nq = 1 /\ id = 0 THEN dnsId ELSE id,
                          q |-> k.q,
                          wire |-> IF nq = 1 /\ id # 0 THEN id ELSE dnsId,
                          shrunk |-> nq > 1]
                  key == DefaultSingleFlightHasher(req)
              IN  /\ sfReq' = [sfReq EXCEPT ![c] = req]
                  /\ sfRet' = [sfRet EXCEPT ![c] = None]
                  /\ IF key \in DOMAIN gm
                     THEN /\ calls' = [calls EXCEPT ![gm[key]].dups = @ + 1]
                          /\ sfCall' = [sfCall EXCEPT ![c] = gm[key]]
                          /\ sfpc' = [sfpc EXCEPT ![c] = "waiting"]
                          /\ UNCHANGED gm
                     ELSE /\ calls' = [calls EXCEPT ![c] =
                                          [key |-> key, val |-> None, err |-> FALSE, dups |-> 0]]
                          /\ gm' = (key :> c) @@ gm
                          /\ sfCall' = [sfCall EXCEPT ![c] = c]
                          /\ sfpc' = [sfpc EXCEPT ![c] = "exchanging"]
    /\ UNCHANGED <<sfExp, timers>>

\* the function given to Do: sf.e.Exchange, then deferredExpiration
RSFExchanged(c) ==
    /\ sfpc[c] = "exchanging"
    /\ \E failed \in BOOLEAN :
         calls' = [calls EXCEPT ![c].val =
                                    IF failed THEN None
                                    ELSE [obj |-> [kind |-> "wire", n |-> c],
                                          id |-> sfReq[c].wire],
                                ![c].err = failed]
    /\ IF sfExp > 0
       THEN /\ timers' = [timers EXCEPT ![calls[c].key] = @ + 1]
            /\ UNCHANGED gm
       ELSE /\ gm' = Forget(calls[c].key)
            /\ UNCHANGED timers
    /\ sfpc' = [sfpc EXCEPT ![c] = "finishing"]
    /\ UNCHANGED <<sfExp, sfReq, sfCall, sfRet, sfRounds>>

\* the end of Group.doCall, of doExchange and of Exchange for the caller
\* that ran the call: the value of Do passes through
RSFLeaderReturn(c) ==
    /\ sfpc[c] = "finishing"
    /\ LET key == calls[c].key
           Waiting(l) == {f \in Callers : sfpc[f] = "waiting" /\ sfCall[f] = l}
           raw == [res |-> calls[c].val, err |-> calls[c].err, shared |-> TRUE,
                   waited |-> TRUE, orig |-> calls[c].val]
       IN  /\ gm' = IF key \in DOMAIN gm /\ gm[key] = c THEN Forget(key) ELSE gm
           /\ sfRet' = [f \in Callers |->
                           IF f = c
                           THEN [res |-> RestoreReturn(RSFOriginal(sfReq[c]), calls[c].val),
                                 err |-> calls[c].err, shared |-> calls[c].dups > 0,
                                 waited |-> FALSE, orig |-> calls[c].val]
                           ELSE IF f \in Waiting(c) THEN raw ELSE sfRet[f]]
           /\ sfpc' = [f \in Callers |->
                           IF f = c THEN "returned"
                           ELSE IF f \in Waiting(c) THEN "woken" ELSE sfpc[f]]
    /\ calls' = [calls EXCEPT ![c] = None]
    /\ UNCHANGED <<sfExp, timers, sfReq, sfCall, sfRounds>>

\* the end of Group.Do, of doExchange and of Exchange for a caller that
\* waited
RSFFollowerReturn(c) ==
    /\ sfpc[c] = "woken"
    /\ sfRet' = [sfRet EXCEPT ![c].res = RestoreReturn(RSFOriginal(sfReq[c]), @)]
    /\ sfpc' = [sfpc EXCEPT ![c] = "returned"]
    /\ UNCHANGED <<sfExp, gm, calls, timers, sfReq, sfCall, sfRounds>>

\* the goroutine of deferredExpiration: time.After(sf.exp), then Forget
RSFTimerFires(key) ==
    /\ timers[key] > 0
    /\ timers' = [timers EXCEPT ![key] = @ - 1]
    /\ gm' = Forget(key)
    /\ UNCHANGED <<sfExp, calls, sfpc, sfReq, sfCall, sfRet, sfRounds>>

(***************************************************************************)
(* Package errors (src/pkg/errors).  A dns.Msg is a record of the fields   *)
(* the code reads: the name of its first question (EmptyName when it has   *)
(* none), TC, the rcode, AA and the record types of its Answer and         *)
(* Authority sections.  An error is nil (None), a *net.DNSError (a record  *)
(* with Err, Name, Server and the three flags) or any other error (a       *)
(* record with Err only).                                                  *)
(***************************************************************************)
\* the texts of net.DNSError.Err (src/pkg/errors/consts.go:5-26)
ErrText ==
    [NOANSWER |-> "no answer", NODATA |-> "NODATA", NXDOMAIN |-> "NXDOMAIN",
     TRUNCATED |-> "dns response was truncated", BADREQUEST |-> "invalid dns request",
     BADRESPONSE |-> "invalid dns response from server",
     NOTIMPLEMENTED |-> "feature not implemented by the server"]

\* dns.RcodeToString, for the rcodes 0..5
RcodeToString ==
    [i \in 0..5 |-> <<"NOERROR", "FORMERR", "SERVFAIL", "NXDOMAIN", "NOTIMP", "REFUSED">>[i + 1]]

\* dns.StringToRcode: [ok, rcode]
StringToRcode(str) ==
    IF \E i \in DOMAIN RcodeToString : RcodeToString[i] = str
    THEN [ok |-> TRUE, rcode |-> CHOOSE i \in DOMAIN RcodeToString : RcodeToString[i] = str]
    ELSE [ok |-> FALSE, rcode |-> 0]

\* &net.DNSError{...}; flags is the set of the flags that are set
DNSError(err, name, server, flags) ==
    [Err |-> err, Name |-> name, Server |-> server,
     IsTimeout |-> "timeout" \in flags, IsTemporary |-> "temporary" \in flags,
     IsNotFound |-> "notfound" \in flags]

\* MsgAsError as it would be if the rcode were looked at before TC
MsgAsErrorRcodeFirst(r) ==
    LET name == IF r = None THEN EmptyName ELSE r.q
    IN  IF r = None THEN DNSError(ErrText.NOANSWER, name, "", {"temporary"})
        ELSE IF r.rcode = StringToRcode("NXDOMAIN").rcode
        THEN DNSError(ErrText.NXDOMAIN, name, "", {"notfound"})
        ELSE IF r.tc THEN DNSError(ErrText.TRUNCATED, name, "", {"temporary"})
        ELSE IF r.rcode = StringToRcode("NOERROR").rcode
        THEN IF Len(r.answer) = 0 /\ r.aa
             THEN DNSError(ErrText.NODATA, name, "", {"notfound"})
             ELSE None
        ELSE DNSError(RcodeToString[r.rcode], name, "", {})

\* MsgAsError
MsgAsError(r) ==
    LET name == IF r = None THEN EmptyName ELSE r.q
    IN  IF r = None THEN DNSError(ErrText.NOANSWER, name, "", {"temporary"})
        ELSE IF r.tc THEN DNSError(ErrText.TRUNCATED, name, "", {"temporary"})
        ELSE IF r.rcode = StringToRcode("NOERROR").rcode
        THEN IF Len(r.answer) = 0 /\ r.aa
             THEN DNSError(ErrText.NODATA, name, "", {"notfound"})
             ELSE None
        ELSE IF r.rcode = StringToRcode("NXDOMAIN").rcode
        THEN DNSError(ErrText.NXDOMAIN, name, "", {"notfound"})
        ELSE DNSError(RcodeToString[r.rcode], name, "", {})

\* newResponseRcode: a reply to req (nil is None) with the rcode
newResponseRcode(req, rcode) ==
    [q |-> IF req = None THEN EmptyName ELSE req.q, tc |-> FALSE, rcode |-> rcode,
     aa |-> FALSE, answer |-> <<>>, auth |-> <<>>]

\* ErrorAsMsg, with dnsErrorAsMsg: a case of the switch that returns
\* nothing leaves the switch and ends in newResponseServerFailure
ErrorAsMsg(req, err) ==
    LET failure == newResponseRcode(req, StringToRcode("SERVFAIL").rcode)
    IN  IF err = None
        THEN IF req = None THEN None ELSE newResponseRcode(req, StringToRcode("NOERROR").rcode)
        ELSE IF "Name" \notin DOMAIN err THEN failure
        ELSE CASE err.Err = ErrText.NOANSWER -> failure
               [] err.Err = ErrText.NODATA ->
                    [newResponseRcode(req, StringToRcode("NOERROR").rcode) EXCEPT !.aa = TRUE]
               [] err.Err = ErrText.NXDOMAIN -> newResponseRcode(req, StringToRcode("NXDOMAIN").rcode)
               [] err.Err = ErrText.TRUNCATED -> failure
               [] err.Err = ErrText.BADREQUEST -> failure
               [] err.Err = ErrText.BADRESPONSE -> failure
               [] err.Err = ErrText.NOTIMPLEMENTED -> newResponseRcode(req, StringToRcode("NOTIMP").rcode)
               [] OTHER ->
                    IF StringToRcode(err.Err).ok
                    THEN newResponseRcode(req, StringToRcode(err.Err).rcode)
                    ELSE failure

\* ValidateResponse as it would be if a truncated response were let through
ValidateResponseKeepsTruncated(server, r, err) ==
    IF err = None /\ r # None /\ r.tc THEN None
    ELSE IF err = None
    THEN IF MsgAsError(r) # None THEN [MsgAsError(r) EXCEPT !.Server = server] ELSE None
    ELSE DNSError(err.Err, IF r = None THEN EmptyName ELSE r.q, server, {})

\* ValidateResponse; core.Coalesce keeps the first non-empty name
ValidateResponse(server, r, err) ==
    LET name == IF r = None THEN EmptyName ELSE r.q
    IN  IF err = None
        THEN IF MsgAsError(r) # None THEN [MsgAsError(r) EXCEPT !.Server = server] ELSE None
        ELSE IF "Name" \in DOMAIN err
        THEN [err EXCEPT !.Server = IF @ = "" THEN server ELSE @,
                         !.Name = IF @ = EmptyName THEN name ELSE @]
        ELSE DNSError(err.Err, name, server, {})

(***************************************************************************)
(* IteratorLookuper (src/iterator.go).  A goroutine running Lookup is a    *)
(* task: the stack holds the names of its nested Exchange calls (one per   *)
(* CNAME followed), and a task that fills the glue of a delegation waits   *)
(* for the tasks it spawned.  The servers are free to answer anything.     *)
(***************************************************************************)
MaxTasks == 3
MaxDepth == 3
MaxPasses == 4
TinyCache == 3

Tasks == 1..MaxTasks

\* passes counts the passes of the running doIterate, got is what its last
\* exchange received, at which depth of the stack, sub is what the
\* innermost doIterate returned and from is the name given to AddFrom when
\* the lookup is the one AddFrom makes
FreeTask == [st |-> "free", stack |-> <<>>, qtype |-> "A", parent |-> 0,
             zone |-> None, ret |-> None, passes |-> 0, got |-> None,
             sub |-> None, from |-> None]

\* the names a caller looks up and a CNAME points to
ChaseNames == {N(<<"a", "com">>, TRUE), N(<<"b", "com">>, TRUE)}

\* what an exchange with a server may give for the question (q, qtype),
\* as [resp, err]: a transport error, a truncated response, a name error,
\* an answer of the type asked, a NODATA (authoritative or not) and, for a
\* name under com., a CNAME or a delegation of com. to one NS, in or out of
\* bailiwick, with or without its address.  An answer to an NS question
\* names one NS in bailiwick (ns), with its address in Additional (addrs)
\* or without, and may be not authoritative
Responses(q, qtype) ==
    LET zCom == N(<<"com">>, TRUE)
        nsOut == N(<<"ns", "net">>, TRUE)
        msg == [q |-> q, tc |-> FALSE, rcode |-> StringToRcode("NOERROR").rcode,
                aa |-> FALSE, answer |-> <<>>, auth |-> <<>>,
                target |-> Root, zone |-> Root, ns |-> Root, addrs |-> <<>>]
        addr == IF qtype = "AAAA" THEN <<V6a>> ELSE <<V4a>>
        nsAnswer == [msg EXCEPT !.aa = TRUE, !.answer = <<"NS">>, !.zone = q,
                                !.ns = N(<<"ns1">> \o q.labels, TRUE)]
        msgs ==
            {[msg EXCEPT !.tc = TRUE, !.answer = <<qtype>>, !.addrs = addr],
             [msg EXCEPT !.rcode = StringToRcode("NXDOMAIN").rcode, !.aa = TRUE,
                         !.auth = <<"SOA">>],
             [msg EXCEPT !.aa = TRUE, !.auth = <<"SOA">>],
             [msg EXCEPT !.auth = <<"SOA">>]}
            \cup (IF qtype = "NS"
                  THEN {[nsAnswer EXCEPT !.addrs = addr], nsAnswer,
                        [nsAnswer EXCEPT !.aa = FALSE, !.addrs = addr]}
                  ELSE {[msg EXCEPT !.aa = TRUE, !.answer = <<qtype>>, !.addrs = addr]})
            \cup {[msg EXCEPT !.aa = TRUE, !.answer = <<"CNAME">>, !.target = t] :
                    t \in IF q \in ChaseNames THEN ChaseNames \ {q} ELSE {}}
            \cup {[msg EXCEPT !.auth = <<"NS">>, !.zone = zCom, !.ns = d[1], !.addrs = d[2]] :
                    d \in IF IsSubDomain(zCom, q)
                          THEN {<<Fqdn(nsA), <<V4a>>>>, <<Fqdn(nsA), <<V6a>>>>,
                                <<Fqdn(nsA), <<>>>>, <<nsOut, <<>>>>}
                          ELSE {}}
    IN  {[resp |-> None, err |-> [Err |-> "EOF"]]}
        \cup {[resp |-> r, err |-> None] : r \in msgs}

\* ParseAddrs: the acceptable addresses, in order
ParseAddrs(servers) ==
    SelectSeq(servers, LAMBDA a : a \in ValidAddrs /\ (aaaa \/ Is4(a)))

\* the i-th synthetic NS name of newManualZone (i counts from 0)
FakeNS(qName, i) ==
    IF qName = Root
    THEN N(<<"fake-ns" \o ToString(i), "root-servers", "net">>, TRUE)
    ELSE N(<<"fake-ns" \o ToString(i)>> \o qName.labels, qName.dot)

\* newManualZone: [ok, panic, zone]
RECURSIVE manualZoneFrom(_, _, _, _)
manualZoneFrom(zone, qName, addrs, i) ==
    LET \* AddGlueNS: AddNS, which registers Fqdn(name), then AddGlue under the
        \* name as given
        AddGlueNSOk(zn, name, ips) == AddGlueOk(AddNS(zn, name), name, ips)
    IN
    IF i > Len(addrs) THEN [ok |-> TRUE, panic |-> FALSE, zone |-> zone]
    ELSE IF ~AddGlueNSOk(zone, FakeNS(qName, i - 1), <<addrs[i]>>)
    THEN [ok |-> FALSE, panic |-> TRUE, zone |-> zone]
    ELSE manualZoneFrom(AddGlueNS(zone, FakeNS(qName, i - 1), <<addrs[i]>>),
                        qName, addrs, i + 1)

newManualZone(qName, servers) ==
    IF ParseAddrs(servers) = <<>>
    THEN [ok |-> FALSE, panic |-> FALSE, zone |-> None]
    ELSE manualZoneFrom(NewNSCacheZone(qName), qName, ParseAddrs(servers), 1)

\* responseWithoutAAAA
responseWithoutAAAA(resp) == [resp EXCEPT !.addrs = SelectSeq(@, Is4)]

\* AddGlue of each address of the response for the NS name
RECURSIVE AddGlueEach(_, _, _)
AddGlueEach(zone, name, addrs) ==
    IF addrs = <<>> THEN zone
    ELSE AddGlueEach(AddGlue(zone, name, <<Head(addrs)>>), name, Tail(addrs))

\* getGlue: the sub-lookups spawned for the zone, <<name, type>> each
GlueLookups(zone) ==
    LET need == SelectSeq(zone.ns,
                    LAMBDA n : GlueOf(zone, n) = <<>> /\ ~IsSubDomain(zone.name, n))
        types == IF aaaa THEN <<"A", "AAAA">> ELSE <<"A">>
    IN  [i \in 1..(Len(need) * Len(types)) |->
            <<need[((i - 1) \div Len(types)) + 1], types[((i - 1) % Len(types)) + 1]>>]

Children(t) == {u \in Tasks : tasks[u].st # "free" /\ tasks[u].parent = t}

\* the servers given to AddServer and AddFrom
IterServers == {<<V4a>>, <<V6a>>}

\* what a Lookup or Exchange returns: an error or a response, for a name,
\* with the addresses of its Answer section
Ret(err, what, name, addrs) == [err |-> err, what |-> what, name |-> name, addrs |-> addrs]

\* the outcome of a step: the tasks, the cache, and the zone whose glue
\* fill panicked, if one did
Out(ts, l) == [tasks |-> ts, lru |-> l, overflow |-> FALSE, panic |-> None, blocked |-> FALSE]

\* doIterate of task t returns res: every enclosing handleCNAMEAnswer
\* returns its response, merged with res when res is no error; a glue
\* sub-lookup then stores the addresses it accepts (goGetGlue), which its
\* ret keeps until the join
Done(ts, t, res) ==
    LET out == IF Len(ts[t].stack) > 1
               THEN Ret(FALSE, "cname", ts[t].stack[1], IF res.err THEN <<>> ELSE res.addrs)
               ELSE res
        p == ts[t].parent
        got == SelectSeq(out.addrs, LAMBDA a : aaaa \/ Is4(a))
        ts1 == [ts EXCEPT ![t].st = "done", ![t].stack = <<ts[t].stack[1]>>,
                          ![t].sub = res,
                          ![t].ret = IF p = 0 THEN out
                                     ELSE Ret(FALSE, "glue", ts[t].stack[1],
                                              IF out.err THEN <<>> ELSE got)]
    IN  IF p # 0 /\ ~out.err /\ got # <<>>
        THEN [ts1 EXCEPT ![p].zone = SetGlue(@, ts[t].stack[1], got)]
        ELSE ts1

\* addDelegation from nsc.Add on; doIterate then asks responseIsFinal
Resume(ts, l, t, zone) ==
    LET a == AddOutcome(l, zone)
    IN  IF ~a.ok
        THEN [Out(Done(ts, t, Ret(TRUE, "invalid", zone.name, <<>>)), a.lru)
                 EXCEPT !.overflow = a.overflow]
        ELSE Out([ts EXCEPT ![t].st = "added", ![t].zone = zone], a.lru)

\* getGlue spawns its sub-lookups and waits
Spawn(t, zone) ==
    LET lk == GlueLookups(zone)
        NthFree(k) ==
            CHOOSE f \in Tasks :
                /\ tasks[f].st = "free"
                /\ Cardinality({u \in Tasks : u < f /\ tasks[u].st = "free"}) = k - 1
    IN  [u \in Tasks |->
            IF u = t THEN [tasks[t] EXCEPT !.st = "wait", !.zone = zone]
            ELSE IF \E i \in 1..Len(lk) : NthFree(i) = u
            THEN LET i == CHOOSE i \in 1..Len(lk) : NthFree(i) = u
                 IN  [FreeTask EXCEPT !.st = "run", !.stack = <<lk[i][1]>>,
                                      !.qtype = lk[i][2], !.parent = t]
            ELSE tasks[u]]

\* handleSuccessDelegation for a delegation kept by sanitizeDelegation
Delegation(t, resp, l) ==
    LET \* NewNSCacheZoneFromDelegation; the records carry TTL 0
        NewNSCacheZoneFromDelegation(r) ==
            LET named == [NewNSCacheZone(EmptyName) EXCEPT !.name = Fqdn(r.zone)]
            IN  SetTTL(AddGlueEach(AddNS(named, r.ns), r.ns, r.addrs), 0, 0)
    IN
    LET g == LruGet(l, Fqdn(resp.zone))
        zone == NewNSCacheZoneFromDelegation(
                    IF aaaa THEN resp ELSE responseWithoutAAAA(resp))
        free == Cardinality({u \in Tasks : tasks[u].st = "free"})
    IN  IF g.ok THEN Out([tasks EXCEPT ![t].st = "added", ![t].zone = zone], g.lru)
        ELSE IF HasGlue(zone) THEN Resume(tasks, g.lru, t, zone)
        ELSE IF GlueLookups(zone) = <<>>
        THEN [Out(tasks, g.lru) EXCEPT !.panic = zone.name]
        ELSE IF Len(GlueLookups(zone)) > free
        THEN [Out(tasks, g.lru) EXCEPT !.blocked = TRUE]
        ELSE Out(Spawn(t, zone), g.lru)

\* nscDoExchange as it would be without handleNODATA: every error of
\* ValidateResponse is returned
nscDoExchangeNoDataFails(zone, x) ==
    LET err2 == ValidateResponse(CHOOSE a \in zone.s : TRUE, x.resp, x.err)
    IN  IF err2 = None THEN [resp |-> x.resp, err |-> None]
        ELSE [resp |-> None, err |-> err2]

\* NSCache.doExchange with handleSuccess and handleNODATA, for what the
\* exchange with a server of the zone gave: [resp, err].  sanitizeDelegation
\* drops the NS records of a name outside the zone, and their addresses
nscDoExchange(zone, x) ==
    LET err2 == ValidateResponse(CHOOSE a \in zone.s : TRUE, x.resp, x.err)
    IN  IF err2 = None
        THEN [resp |-> IF "NS" \in Range(x.resp.auth) /\ ~IsSubDomain(zone.name, x.resp.zone)
                       THEN [x.resp EXCEPT !.auth = SelectSeq(@, LAMBDA y : y # "NS"),
                                           !.addrs = <<>>]
                       ELSE x.resp,
              err |-> None]
        ELSE IF err2.Err = ErrText.NODATA /\ x.resp # None /\ "SOA" \in Range(x.resp.auth)
        THEN [resp |-> x.resp, err |-> None]
        ELSE [resp |-> None, err |-> err2]

\* doIteratePass of task t for what the exchange with a server of the zone
\* the cache chose gave (r is what NSCache.Lookup returned), with
\* handleSuccess, handleSuccessAnswer and handleSuccessNoData
Pass(t, q, r, x) ==
    LET e == nscDoExchange(r.value, x)
        resp == e.resp
        bad == Out(Done(tasks, t, Ret(TRUE, ErrText.BADRESPONSE, q, <<>>)), r.lru)
    IN  IF e.err # None
        THEN Out(Done(tasks, t, Ret(TRUE, e.err.Err, q, <<>>)), r.lru)
        ELSE IF resp.rcode # StringToRcode("NOERROR").rcode THEN bad
        ELSE IF resp.answer # <<>>
        THEN IF tasks[t].qtype \in Range(resp.answer)
             THEN Out(Done(tasks, t, Ret(FALSE, "answer", q, resp.addrs)), r.lru)
             ELSE IF "CNAME" \in Range(resp.answer)
             THEN Out([tasks EXCEPT ![t].stack = Append(@, Fqdn(resp.target))], r.lru)
             ELSE bad
        ELSE IF "NS" \in Range(resp.auth) THEN Delegation(t, resp, r.lru)
        ELSE IF "SOA" \in Range(resp.auth)
        THEN IF resp.aa
             THEN Out(Done(tasks, t, Ret(FALSE, "nodata", q, <<>>)), r.lru)
             ELSE bad
        ELSE bad

Apply(o, t) ==
    /\ ~o.blocked
    /\ tasks' = o.tasks
    /\ lru' = o.lru
    /\ overflow' = o.overflow
    /\ crashed' = (o.panic # None)
    /\ glueFail' = IF o.panic # None THEN [glueFail EXCEPT ![t] = o.panic] ELSE glueFail

\* IteratorLookuper.Lookup is called
IterLookup ==
    /\ ~crashed /\ ~overflow
    /\ tasks[1].st = "free"
    /\ \E q \in ChaseNames :
         tasks' = [tasks EXCEPT ![1] = [FreeTask EXCEPT !.st = "run", !.stack = <<Fqdn(q)>>]]
    /\ UNCHANGED <<cacheVars, aaaa, crashed, glueFail>>

\* one pass of doIterate in the innermost Exchange of task t
IterPass(t) ==
    /\ ~crashed /\ ~overflow
    /\ tasks[t].st = "run"
    /\ tasks[t].passes < MaxPasses
    /\ LET q == tasks[t].stack[Len(tasks[t].stack)]
           r == NSCacheLookup(lru, q)
           seen(o, x) ==
               [o EXCEPT !.tasks[t].passes = IF Len(o.tasks[t].stack) > Len(tasks[t].stack)
                                              THEN 0 ELSE tasks[t].passes + 1,
                         !.tasks[t].got = [depth |-> Len(tasks[t].stack),
                                           resp |-> x.resp, err |-> x.err]]
       IN  IF ~r.ok \/ r.value.s = {}
           THEN Apply(seen(Out(Done(tasks, t, Ret(TRUE, "REFUSED", q, <<>>)), r.lru),
                           [resp |-> None, err |-> DNSError("REFUSED", q, "", {})]), t)
           ELSE \E x \in Responses(q, tasks[t].qtype) :
                   /\ (x.resp # None /\ "CNAME" \in Range(x.resp.answer))
                         => Len(tasks[t].stack) < MaxDepth
                   /\ Apply(seen(Pass(t, q, r, x), x), t)
    /\ UNCHANGED <<persistent, maxSize, now, last, pend, aaaa>>

\* IterJoin as it would be if getGlue did not wait for its sub-lookups
IterJoinEarly(t) ==
    /\ ~crashed /\ ~overflow
    /\ tasks[t].st = "wait"
    /\ LET ts == [u \in Tasks |->
                    IF u \in Children(t) /\ tasks[u].st = "done" THEN FreeTask ELSE tasks[u]]
       IN  IF HasGlue(tasks[t].zone)
           THEN Apply(Resume(ts, lru, t, tasks[t].zone), t)
           ELSE Apply([Out(ts, lru) EXCEPT !.panic = tasks[t].zone.name], t)
    /\ UNCHANGED <<persistent, maxSize, now, last, pend, aaaa>>

\* wg.Wait() of getGlue returns: the sub-lookups of task t have ended
IterJoin(t) ==
    /\ ~crashed /\ ~overflow
    /\ tasks[t].st = "wait"
    /\ \A u \in Children(t) : tasks[u].st = "done"
    /\ LET ts == [u \in Tasks |-> IF u \in Children(t) THEN FreeTask ELSE tasks[u]]
       IN  IF HasGlue(tasks[t].zone)
           THEN Apply(Resume(ts, lru, t, tasks[t].zone), t)
           ELSE Apply([Out(ts, lru) EXCEPT !.panic = tasks[t].zone.name], t)
    /\ UNCHANGED <<persistent, maxSize, now, last, pend, aaaa>>

\* responseIsFinal for the delegation task t has handled: the lookup goes
\* on when the cache holds the delegated zone and returns the response
\* when it does not
IterFinal(t) ==
    /\ ~crashed /\ ~overflow
    /\ tasks[t].st = "added"
    /\ LET g == LruGet(lru, tasks[t].zone.name)
           ts == [tasks EXCEPT ![t].zone = None]
       IN  IF g.ok
           THEN Apply(Out([ts EXCEPT ![t].st = "run"], g.lru), t)
           ELSE Apply(Out(Done(ts, t, Ret(FALSE, "deleg", tasks[t].zone.name, <<>>)), g.lru), t)
    /\ UNCHANGED <<persistent, maxSize, now, last, pend, aaaa>>

\* Lookup has returned to its caller
IterReturn ==
    /\ ~crashed /\ ~overflow
    /\ tasks[1].st = "done" /\ tasks[1].from = None
    /\ tasks' = [tasks EXCEPT ![1] = FreeTask]
    /\ UNCHANGED <<cacheVars, aaaa, crashed, glueFail>>

\* IteratorLookuper.AddMap
IterAddMap ==
    LET \* mapWithoutAAAA
        mapWithoutAAAA(m) ==
            [k \in {n \in DOMAIN m : m[n] \in ValidAddrs /\ Is4(m[n])} |-> m[k]]
    IN
    LET \* the maps given to AddMap
        IterMaps == {(nsA :> V4a), (nsA :> V6a)}
    IN
    /\ ~crashed /\ ~overflow
    /\ \E m \in IterMaps :
         LET m1 == IF aaaa THEN m ELSE mapWithoutAAAA(m)
         IN  \E order \in Orders(DOMAIN m1) :
                LET a == AddOutcome(lru, NewNSCacheZoneFromMap(Root, 0, m1, order))
                IN  lru' = a.lru /\ overflow' = a.overflow
    /\ UNCHANGED <<persistent, maxSize, now, last, pend, iterVars>>

\* IteratorLookuper.AddServer
IterAddServer ==
    /\ ~crashed /\ ~overflow
    /\ \E servers \in IterServers :
         LET z == newManualZone(Root, servers)
             a == AddOutcome(lru, SetTTL(z.zone, 0, 0))
         IN  IF z.panic
             THEN crashed' = TRUE /\ UNCHANGED <<lru, overflow>>
             ELSE IF ~z.ok
             THEN UNCHANGED <<lru, overflow, crashed>>
             ELSE lru' = a.lru /\ overflow' = a.overflow /\ UNCHANGED crashed
    /\ UNCHANGED <<persistent, maxSize, now, last, pend, aaaa, tasks, glueFail>>

\* IteratorLookuper.AddFrom up to its call of Lookup: the synthetic zone is
\* added and the NS lookup starts, in the goroutine of the caller
IterAddFrom ==
    /\ ~crashed /\ ~overflow
    /\ tasks[1].st = "free"
    /\ \E qName \in {N(<<"com">>, TRUE)}, servers \in IterServers :
         LET z == newManualZone(qName, servers)
             a == AddOutcome(lru, z.zone)
             t1 == [FreeTask EXCEPT !.st = "run", !.stack = <<Fqdn(qName)>>,
                                    !.qtype = "NS", !.from = qName]
         IN  IF z.panic
             THEN crashed' = TRUE /\ UNCHANGED <<lru, overflow, tasks>>
             ELSE IF ~z.ok
             THEN UNCHANGED <<lru, overflow, crashed, tasks>>
             ELSE /\ lru' = a.lru /\ overflow' = a.overflow /\ UNCHANGED crashed
                  /\ tasks' = IF a.ok THEN [tasks EXCEPT ![1] = t1] ELSE tasks
    /\ UNCHANGED <<persistent, maxSize, now, last, pend, aaaa, glueFail>>

\* IteratorLookuper.AddFrom from the return of its Lookup on, with
\* lookupAddFrom: the zone of the answer replaces the synthetic zone, and
\* a failure evicts qName.  The slot keeps what AddFrom returned
IterAddFromEnd ==
    LET \* NewNSCacheZoneFromNS is not among the sources: the zone of the NS
        \* records of the Answer, with the addresses Additional has for them
        NewNSCacheZoneFromNS(resp) ==
            LET named == [NewNSCacheZone(EmptyName) EXCEPT !.name = Fqdn(resp.zone)]
            IN  AddGlueEach(AddNS(named, resp.ns), resp.ns, resp.addrs)
    IN
    /\ ~crashed /\ ~overflow
    /\ tasks[1].st = "done" /\ tasks[1].from # None
    /\ LET qName == tasks[1].from
           resp == tasks[1].got.resp
           failed == \/ tasks[1].ret.err
                     \/ ValidateResponse("", resp, None) # None
                     \/ ~resp.aa
           zone == SetTTL(NewNSCacheZoneFromNS(IF aaaa THEN resp
                                               ELSE responseWithoutAAAA(resp)), 0, 0)
           a == AddOutcome(lru, zone)
           returns(err) == [tasks EXCEPT ![1] = [FreeTask EXCEPT
                                !.ret = Ret(err, "AddFrom", qName, <<>>)]]
       IN  IF failed
           THEN /\ lru' = LruEvict(lru, qName) /\ tasks' = returns(TRUE)
                /\ UNCHANGED <<overflow, crashed, glueFail>>
           ELSE IF ~HasGlue(zone)
           THEN /\ crashed' = TRUE /\ glueFail' = [glueFail EXCEPT ![1] = zone.name]
                /\ UNCHANGED <<lru, overflow, tasks>>
           ELSE /\ lru' = IF a.ok THEN a.lru ELSE LruEvict(a.lru, qName)
                /\ overflow' = a.overflow
                /\ tasks' = returns(~a.ok)
                /\ UNCHANGED <<crashed, glueFail>>
    /\ UNCHANGED <<persistent, maxSize, now, last, pend, aaaa>>

\* IteratorLookuper.SetPersistent, for the name AddFrom is given
IterSetPersistent ==
    /\ ~crashed /\ ~overflow
    /\ LET r == LruGet(lru, N(<<"com">>, TRUE))
       IN  /\ lru' = r.lru
           /\ persistent' = IF r.ok THEN persistent \cup {N(<<"com">>, TRUE)} ELSE persistent
    /\ UNCHANGED <<maxSize, now, overflow, last, pend, iterVars>>

\* IteratorLookuper.DisableAAAA
IterDisableAAAA ==
    /\ ~crashed /\ ~overflow
    /\ aaaa
    /\ aaaa' = FALSE
    /\ UNCHANGED <<cacheVars, tasks, crashed, glueFail>>

(***************************************************************************)
(* Initial values                                                          *)
(***************************************************************************)
\* NewNSCache (src/cache_ns_test.go:532-546) at time 0
CacheStart(maxRR) ==
    LET NewNSCacheSize(n) == IF n = 0 THEN DefaultNSCacheSize ELSE n
    IN
    /\ lru = <<>>
    /\ persistent = {}
    /\ maxSize = NewNSCacheSize(maxRR)
    /\ now = Dur(0, 0)
    /\ overflow = FALSE
    /\ last = [op |-> "New", q |-> Root, ok |-> TRUE, value |-> None,
               canon |-> None, pend |-> None]
    /\ pend = None

\* NewSingleFlight (src/pkg/client/singleflight.go:162-172), no caller yet
SFStart(exp) ==
    /\ sfExp = IF exp = 0 THEN DefaultSingleFlightExpiration ELSE exp
    /\ gm = <<>>
    /\ calls = [c \in Callers |-> None]
    /\ timers = [key \in SFKeys |-> 0]
    /\ sfpc = [c \in Callers |-> "idle"]
    /\ sfReq = [c \in Callers |-> None]
    /\ sfCall = [c \in Callers |-> 0]
    /\ sfRet = [c \in Callers |-> None]
    /\ sfRounds = 0

IterStart(v6) ==
    /\ aaaa = v6
    /\ tasks = [t \in Tasks |-> FreeTask]
    /\ crashed = FALSE
    /\ glueFail = [t \in Tasks |-> None]

(***************************************************************************)
(* SpecCache: the public operations of one NSCache, in any order           *)
(***************************************************************************)
InitCache ==
    /\ CacheStart(SmallCache)
    /\ SFStart(1)
    /\ IterStart(TRUE)
    /\ ownZone = NewNSCacheZone(EmptyName)
    /\ ownLast = None
    /\ conv = None
    /\ zmu = None /\ wp = None /\ ml = None /\ srv = None /\ pl = None

NextCache ==
    \/ CacheAdd /\ UNCHANGED <<sfVars, iterVars, zoneVars, conv, goVars>>
    \/ CacheAddMap /\ UNCHANGED <<sfVars, iterVars, zoneVars, conv, goVars>>
    \/ CacheEvict /\ UNCHANGED <<sfVars, iterVars, zoneVars, conv, goVars>>
    \/ CacheLookup /\ UNCHANGED <<sfVars, iterVars, zoneVars, conv, goVars>>
    \/ CacheGet /\ UNCHANGED <<sfVars, iterVars, zoneVars, conv, goVars>>
    \/ CacheSetPersistence /\ UNCHANGED <<sfVars, iterVars, zoneVars, conv, goVars>>
    \/ Advance /\ UNCHANGED <<sfVars, iterVars, zoneVars, conv, goVars>>

SpecCache == InitCache /\ [][NextCache]_vars

(***************************************************************************)
(* Properties of NSCache, checked under SpecCache                          *)
(***************************************************************************)
\* C2: when a cached persistent zone was removed by Evict(n) and the next
\* call is Lookup(n), the lookup finds a zone with the same name, NS names
\* and glue as before the eviction.
PersistentZoneRestored ==
    (last.op = "Lookup" /\ last.pend # None /\ last.q = last.pend.name)
        => (last.ok /\ last.value = last.pend.triple)

\* C6: the zone Lookup(qname) returns is named by a label-boundary suffix of
\* canonical(qname), and no strictly longer suffix is the name of a cached
\* zone when the call returns.
LookupLongestSuffix ==
    LET \* a is the text of b from one of its label boundaries on (byte-wise)
        IsLabelSuffix(a, b) ==
            /\ a.dot = b.dot
            /\ Len(a.labels) <= Len(b.labels)
            /\ SubSeq(b.labels, Len(b.labels) - Len(a.labels) + 1, Len(b.labels)) = a.labels
    IN
    (last.op = "Lookup" /\ last.ok)
        => /\ IsLabelSuffix(last.value.name, Canonical(last.q))
           /\ \A n \in Range(Suffixes(Canonical(last.q))) :
                 Len(n.labels) > Len(last.value.name.labels) => n \notin Cached(lru)

\* C7: Lookup(q) returns what Lookup(canonical(q)) returns on the same cache.
LookupCanonical ==
    last.op = "Lookup" => [ok |-> last.ok, value |-> last.value] = last.canon

\* C8: every zone the cache holds has a name, an NS name and an NS with at
\* least one glue address.
CachedZonesValid ==
    \A i \in 1..Len(lru) :
        /\ lru[i].value.name # EmptyName
        /\ Len(lru[i].value.ns) >= 1
        /\ HasGlue(lru[i].value)

\* C9: when Add has returned, the NS names and glue addresses of the cached
\* zones together are at most the capacity.
AddWithinCapacity ==
    last.op = "Add" => SeqSum([i \in 1..Len(lru) |-> Records(lru[i].value)]) <= maxSize

\* C19: when Evict has removed a persistent zone and the callback has put it
\* back, the entry expires MinimumNSCacheTTL seconds after the eviction.
RestoredForMinimumTTL ==
    (last.op = "Evict" /\ pend # None)
        => /\ LruHas(lru, pend.name)
           /\ lru[LruIndex(lru, pend.name)].expire
                  = TimeAdd(pend.at, Seconds(MinimumNSCacheTTL))

\* C34: every Add and every Evict returns: the eviction callback and the
\* restore of a persistent zone neither wait for the mutex of the cache nor
\* go on without end, whether the eviction was asked for, was made for
\* room or was made by the restore itself.
EvictionCallbackReturns ==
    ~overflow

\* C25: when AddMap(name, ttl, m) has succeeded, Get(canonical(name)) finds
\* a zone whose glue addresses are exactly the addresses of m of the enabled
\* family.
AddMapThenGet ==
    [][\A name \in AddNames, m \in AddMaps :
          (/\ \E order \in Orders(DOMAIN m) :
                  NSCacheAdd(NewNSCacheZoneFromMap(name, 0, m, order))
           /\ last'.ok)
            => LET g == LruGet(lru', Canonical(name))
               IN  /\ g.ok
                   /\ UNION {Range(g.value.glue[n]) : n \in DOMAIN g.value.glue}
                        = {m[k] : k \in {n \in DOMAIN m : aaaa \/ Is4(m[n])}}]_vars

(***************************************************************************)
(* SpecSF: callers of one client.SingleFlight, concurrently and in turn    *)
(***************************************************************************)
InitSF ==
    /\ CacheStart(0)
    /\ \E exp \in {0 - 1, 0} : SFStart(exp)
    /\ IterStart(TRUE)
    /\ ownZone = NewNSCacheZone(EmptyName)
    /\ ownLast = None
    /\ conv = None
    /\ zmu = None /\ wp = None /\ ml = None /\ srv = None /\ pl = None

NextSF ==
    \/ \E c \in Callers : SFBegin(c) /\ UNCHANGED <<cacheVars, iterVars, zoneVars, conv, goVars>>
    \/ \E c \in Callers : SFExchanged(c) /\ UNCHANGED <<cacheVars, iterVars, zoneVars, conv, goVars>>
    \/ \E c \in Callers : SFLeaderReturn(c) /\ UNCHANGED <<cacheVars, iterVars, zoneVars, conv, goVars>>
    \/ \E c \in Callers : SFFollowerReturn(c) /\ UNCHANGED <<cacheVars, iterVars, zoneVars, conv, goVars>>
    \/ \E key \in SFKeys : SFTimerFires(key) /\ UNCHANGED <<cacheVars, iterVars, zoneVars, conv, goVars>>
    \/ \E c \in Callers : SFCancel(c) /\ UNCHANGED <<cacheVars, iterVars, zoneVars, conv, goVars>>

SpecSF == InitSF /\ [][NextSF]_vars

(***************************************************************************)
(* Properties of client.SingleFlight, checked under SpecSF                 *)
(***************************************************************************)
\* C1: at every instant at most one exchange on the wrapped client is in
\* flight for a key.
OneExchangePerKey ==
    \A c, d \in Callers :
        (sfpc[c] = "exchanging" /\ sfpc[d] = "exchanging" /\ calls[c].key = calls[d].key)
            => c = d

\* C10: a response returned to a caller that waited for another caller's
\* exchange is a copy of that exchange's response and carries the caller's
\* own request ID.
FollowerGetsOwnCopy ==
    \A c \in Callers :
        (sfpc[c] = "returned" /\ sfRet[c].waited /\ sfRet[c].res # None)
            => /\ sfRet[c].res.obj # sfRet[c].orig.obj
               /\ sfRet[c].res.id = sfReq[c].id

\* a caller that waited has returned with a response, and its request ID
\* differs from the ID of the response on the wire
FollowerReturned ==
    \E c \in Callers :
        /\ sfpc[c] = "returned"
        /\ sfRet[c].waited
        /\ sfRet[c].res # None
        /\ sfRet[c].orig.id # sfReq[c].id

\* C12: with exp > 0, a request whose key had an exchange complete less
\* than exp ago (the expiration timer of that exchange is still pending)
\* starts no exchange on the wrapped client: it is served the kept result.
NoExchangeWithinExpiration ==
    [][\A c \in Callers :
          (sfExp > 0 /\ sfpc[c] # "exchanging" /\ sfpc'[c] = "exchanging")
              => timers[calls'[c].key] = 0]_vars

\* C13: a caller whose context ended while it waited for another caller's
\* exchange returns the error of its context, not the outcome of that
\* exchange.
CancelledWaiterGetsContextError ==
    \A c \in Callers :
        (sfpc[c] = "returned" /\ sfRet[c] # None /\ sfRet[c].waited /\ sfReq[c].cancelled)
            => (sfRet[c].res = None /\ sfRet[c].err)

(***************************************************************************)
(* SpecRSF: callers of one resolver.SingleFlight                           *)
(***************************************************************************)
\* NewSingleFlight (src/singleflight.go:128-149), no caller yet.  A negative
\* exp is refused with (nil, core.ErrInvalid): sfExp then keeps the exp
\* that was asked for and the callers, who hold no SingleFlight, stay at
\* "invalid"
InitRSF ==
    /\ CacheStart(0)
    /\ \E exp \in {0 - 1, 0, 2} :
         IF exp < 0
         THEN /\ sfExp = exp
              /\ sfpc = [c \in Callers |-> "invalid"]
         ELSE /\ sfExp = IF exp = 0 THEN DefaultSingleFlightExpiration ELSE exp
              /\ sfpc = [c \in Callers |-> "idle"]
    /\ gm = <<>>
    /\ calls = [c \in Callers |-> None]
    /\ timers = [key \in RSFKeys |-> 0]
    /\ sfReq = [c \in Callers |-> None]
    /\ sfCall = [c \in Callers |-> 0]
    /\ sfRet = [c \in Callers |-> None]
    /\ sfRounds = 0
    /\ IterStart(TRUE)
    /\ ownZone = NewNSCacheZone(EmptyName)
    /\ ownLast = None
    /\ conv = None
    /\ zmu = None /\ wp = None /\ ml = None /\ srv = None /\ pl = None

NextRSF ==
    \/ \E c \in Callers : RSFBegin(c) /\ UNCHANGED <<cacheVars, iterVars, zoneVars, conv, goVars>>
    \/ \E c \in Callers : RSFExchanged(c) /\ UNCHANGED <<cacheVars, iterVars, zoneVars, conv, goVars>>
    \/ \E c \in Callers : RSFLeaderReturn(c) /\ UNCHANGED <<cacheVars, iterVars, zoneVars, conv, goVars>>
    \/ \E c \in Callers : RSFFollowerReturn(c) /\ UNCHANGED <<cacheVars, iterVars, zoneVars, conv, goVars>>
    \/ \E key \in RSFKeys : RSFTimerFires(key) /\ UNCHANGED <<cacheVars, iterVars, zoneVars, conv, goVars>>

SpecRSF == InitRSF /\ [][NextRSF]_vars

\* C11: a response resolver.SingleFlight returns to a caller that waited for
\* another caller's exchange is a copy of that exchange's response and
\* carries the caller's own request ID.
SubordinateGetsOwnCopy ==
    \A c \in Callers :
        (sfpc[c] = "returned" /\ sfRet[c].waited /\ sfRet[c].res # None)
            => /\ sfRet[c].res.obj # sfRet[c].orig.obj
               /\ sfRet[c].res.id = sfReq[c].id

\* C28: a resolver.SingleFlight built with a negative exp is usable (the
\* constructor returned no error) and forgets each key as soon as its
\* exchange is complete.
NegativeExpIsImmediate ==
    sfExp < 0
        => \A c \in Callers :
              /\ sfpc[c] # "invalid"
              /\ sfpc[c] = "finishing" => calls[c].key \notin DOMAIN gm

(***************************************************************************)
(* SpecIter: one IteratorLookuper, its bootstrap calls and its lookups     *)
(***************************************************************************)
InitIter ==
    /\ \E maxRR \in {0, TinyCache} : CacheStart(maxRR)
    /\ SFStart(0)
    /\ \E v6 \in BOOLEAN : IterStart(v6)
    /\ ownZone = NewNSCacheZone(EmptyName)
    /\ ownLast = None
    /\ conv = None
    /\ zmu = None /\ wp = None /\ ml = None /\ srv = None /\ pl = None

NextIter ==
    \/ IterLookup /\ UNCHANGED <<sfVars, zoneVars, conv, goVars>>
    \/ \E t \in Tasks : IterPass(t) /\ UNCHANGED <<sfVars, zoneVars, conv, goVars>>
    \/ \E t \in Tasks : IterJoin(t) /\ UNCHANGED <<sfVars, zoneVars, conv, goVars>>
    \/ \E t \in Tasks : IterFinal(t) /\ UNCHANGED <<sfVars, zoneVars, conv, goVars>>
    \/ IterReturn /\ UNCHANGED <<sfVars, zoneVars, conv, goVars>>
    \/ IterAddMap /\ UNCHANGED <<sfVars, zoneVars, conv, goVars>>
    \/ IterAddServer /\ UNCHANGED <<sfVars, zoneVars, conv, goVars>>
    \/ IterAddFrom /\ UNCHANGED <<sfVars, zoneVars, conv, goVars>>
    \/ IterAddFromEnd /\ UNCHANGED <<sfVars, zoneVars, conv, goVars>>
    \/ IterSetPersistent /\ UNCHANGED <<sfVars, zoneVars, conv, goVars>>
    \/ IterDisableAAAA /\ UNCHANGED <<sfVars, zoneVars, conv, goVars>>

SpecIter == InitIter /\ [][NextIter]_vars

(***************************************************************************)
(* Properties of IteratorLookuper, checked under SpecIter                  *)
(***************************************************************************)
\* C3: when the glue fill of a delegation has ended and the zone has no
\* glue address, nothing panics, the lookup ends with a Timeout error that
\* names the zone, and the zone is not in the cache.
GlueFailureIsTimeout ==
    \A t \in Tasks :
        glueFail[t] # None
            => /\ ~crashed
               /\ tasks[t].ret = Ret(TRUE, "timeout", glueFail[t], <<>>)
               /\ glueFail[t] \notin Cached(lru)

\* C4: while AAAA is disabled no cached zone has an IPv6 glue address.
NoV6GlueWhenDisabled ==
    LET \* some glue address of the zone is IPv6
        HasV6Glue(zone) ==
            \E n \in DOMAIN zone.glue : \E a \in Range(zone.glue[n]) : ~Is4(a)
    IN
    ~aaaa => \A i \in 1..Len(lru) : ~HasV6Glue(lru[i].value)

\* C5: a CNAME chase never asks again for a name it is already resolving:
\* a cycle is detected instead of being followed.
ChaseDetectsCycle ==
    \A t \in Tasks :
        \A i, j \in 1..Len(tasks[t].stack) :
            i < j => tasks[t].stack[i] # tasks[t].stack[j]

\* C14: when the sub-lookups of a glue fill have all ended, the glue of each
\* NS name holds every address a sub-lookup for that name obtained, each
\* address once.
GlueMergesSubLookups ==
    \A t \in Tasks :
        (tasks[t].st = "wait" /\ \A u \in Children(t) : tasks[u].st = "done")
            => \A u \in Children(t) :
                  LET g == GlueOf(tasks[t].zone, tasks[u].ret.name)
                  IN  /\ Range(tasks[u].ret.addrs) \subseteq Range(g)
                      /\ Cardinality(Range(g)) = Len(g)

\* C15: a glue sub-lookup that has not finished has its parent still inside
\* getGlue: getGlue returns only after every task it spawned has ended.
GlueTasksJoinBeforeReturn ==
    \A u \in Tasks :
        (tasks[u].parent # 0 /\ tasks[u].st \in {"run", "wait", "added"})
            => tasks[tasks[u].parent].st = "wait"

\* a glue fill has spawned sub-lookups, joined them and returned: the zone
\* is cached with the address a sub-lookup found for its out-of-bailiwick NS
GlueFillReturned ==
    /\ \A u \in Tasks : tasks[u].parent = 0
    /\ \E i \in 1..Len(lru) :
          \E n \in DOMAIN lru[i].value.glue :
              /\ ~IsSubDomain(lru[i].value.name, n)
              /\ lru[i].value.name # Root
              /\ lru[i].value.glue[n] # <<>>

ValidationFailureEndsLookup ==
    \A t \in Tasks :
        LET g == tasks[t].got
        IN  (/\ tasks[t].st # "free" /\ tasks[t].parent = 0
             /\ g # None /\ g.err = None /\ g.resp # None
             /\ g.resp.tc \/ RcodeToString[g.resp.rcode] = "NXDOMAIN")
                => /\ tasks[t].st = "done"
                   /\ g.depth = 1 =>
                        tasks[t].ret = Ret(TRUE, IF g.resp.tc THEN ErrText.TRUNCATED
                                                 ELSE ErrText.NXDOMAIN, g.resp.q, <<>>)

\* a lookup has returned the TRUNCATED error of its first pass
TruncatedReturned ==
    \E t \in Tasks :
        /\ tasks[t].st = "done" /\ tasks[t].parent = 0
        /\ tasks[t].got # None /\ tasks[t].got.resp # None /\ tasks[t].got.depth = 1
        /\ tasks[t].got.resp.tc
        /\ tasks[t].ret = Ret(TRUE, ErrText.TRUNCATED, tasks[t].got.resp.q, <<>>)

\* C23: when the sub-lookup for a CNAME target fails (its doIterate returns
\* an error, or the glue fill of a delegation it received ends without
\* glue), the outer lookup returns the response that held the CNAME, with
\* no error.
ChaseFailureKeepsResponse ==
    \A t \in Tasks :
        (/\ tasks[t].st # "free" /\ tasks[t].parent = 0
         /\ \/ tasks[t].got # None /\ tasks[t].got.depth > 1
                /\ tasks[t].sub # None /\ tasks[t].sub.err
            \/ glueFail[t] # None /\ Len(tasks[t].stack) > 1)
            => /\ tasks[t].st = "done"
               /\ tasks[t].ret = Ret(FALSE, "cname", tasks[t].stack[1], <<>>)

\* C24: when AddFrom returns an error, the cache holds no synthetic zone
\* (one with a fake-ns name) under the name it was given.
AddFromFailureEvicts ==
    (/\ tasks[1].st = "free" /\ tasks[1].ret # None
     /\ tasks[1].ret.what = "AddFrom" /\ tasks[1].ret.err)
        => ~\E i \in 1..Len(lru) :
               /\ lru[i].key = Fqdn(tasks[1].ret.name)
               /\ \E n \in Range(lru[i].value.ns) : Head(n.labels) = "fake-ns0"

\* C29: a doIterate never makes more passes than its query name has labels,
\* plus one.
PassesBoundedByLabels ==
    \A t \in Tasks :
        tasks[t].st # "free"
            => tasks[t].passes <= Len(tasks[t].stack[Len(tasks[t].stack)].labels) + 1

\* C30: a Lookup that returns without error returns a response with an
\* Answer or an authoritative NODATA, never a bare referral.
NoBareReferral ==
    \A t \in Tasks :
        (tasks[t].st = "done" /\ tasks[t].parent = 0 /\ ~tasks[t].ret.err)
            => tasks[t].ret.what \in {"answer", "cname", "nodata"}

(***************************************************************************)
(* SpecZone: the methods of one NSCacheZone, called in any order while     *)
(* time passes                                                             *)
(***************************************************************************)
MaxAddrs == 2
MaxTTL == 12
ZoneStep == 4
MaxSeconds == 12

\* NSCacheZone.AddNS
ZoneAddNS ==
    /\ \E name \in {nsA, Fqdn(nsA), N(<<"ns", "net">>, TRUE), Root} :
         /\ ownZone' = AddNS(ownZone, name)
         /\ ownLast' = [op |-> "AddNS", name |-> name, ok |-> AddNSOk(ownZone, name)]
    /\ UNCHANGED now

\* NSCacheZone.AddGlue with one to MaxAddrs addresses
ZoneAddGlue ==
    /\ \E name \in {nsA, Fqdn(nsA), N(<<"ns", "net">>, TRUE)}, k \in 1..MaxAddrs :
         \E addrs \in [1..k -> {V4a, V6a}] :
            /\ ownZone' = AddGlue(ownZone, name, addrs)
            /\ ownLast' = [op |-> "AddGlue", name |-> name, addrs |-> addrs,
                           before |-> ownZone.glue,
                           ok |-> AddGlueOk(ownZone, name, addrs)]
    /\ UNCHANGED now

\* NSCacheZone.SetTTL
ZoneSetTTL ==
    /\ \E ttl \in {0, MinimumNSCacheTTL - 1, MinimumNSCacheTTL, MaxTTL},
          half \in {0, MinimumNSCacheTTL \div 2, MaxTTL} :
         /\ ownZone' = SetTTL(ownZone, ttl, half)
         /\ ownLast' = [op |-> "SetTTL", ttl |-> ttl, half |-> half, at |-> now]
    /\ UNCHANGED now

\* NSCacheZone.TTL and NSCacheZone.ExportNS
ZoneExportNS ==
    LET \* ExportNS: one NS record per NS name, with the TTL of the zone
        ExportNS(zn) ==
            [i \in 1..Len(zn.ns) |->
                [name |-> zn.name, rrtype |-> "NS", ttl |-> TTL(zn), ns |-> zn.ns[i]]]
    IN
    /\ ownLast' = [op |-> "ExportNS", ttl |-> TTL(ownZone), rrs |-> ExportNS(ownZone),
                   at |-> now]
    /\ UNCHANGED <<ownZone, now>>

\* time passes
ZoneTick ==
    /\ now.s + ZoneStep <= MaxSeconds
    /\ now' = TimeAdd(now, Seconds(ZoneStep))
    /\ UNCHANGED <<ownZone, ownLast>>

\* NewNSCacheZone (src/cache_ns_zone.go:391-400) at time 0
InitZone ==
    /\ CacheStart(0)
    /\ SFStart(0)
    /\ IterStart(TRUE)
    /\ ownZone = NewNSCacheZone(N(<<"x", "com">>, TRUE))
    /\ ownLast = [op |-> "New"]
    /\ conv = None
    /\ zmu = None /\ wp = None /\ ml = None /\ srv = None /\ pl = None

NextZone ==
    \/ ZoneAddNS /\ UNCHANGED <<lru, persistent, maxSize, overflow, last, pend, sfVars, iterVars, conv, goVars>>
    \/ ZoneAddGlue /\ UNCHANGED <<lru, persistent, maxSize, overflow, last, pend, sfVars, iterVars, conv, goVars>>
    \/ ZoneSetTTL /\ UNCHANGED <<lru, persistent, maxSize, overflow, last, pend, sfVars, iterVars, conv, goVars>>
    \/ ZoneExportNS /\ UNCHANGED <<lru, persistent, maxSize, overflow, last, pend, sfVars, iterVars, conv, goVars>>
    \/ ZoneTick /\ UNCHANGED <<lru, persistent, maxSize, overflow, last, pend, sfVars, iterVars, conv, goVars>>

SpecZone == InitZone /\ [][NextZone]_vars

(***************************************************************************)
(* Properties of NSCacheZone, checked under SpecZone                       *)
(***************************************************************************)
\* C16: after AddGlue(name, a1..ak) on a registered NS name the glue of the
\* name is what it was plus every ai, no address twice, and the call
\* returns true exactly when some ai was new; on another name the glue is
\* as it was and the call returns false.
AddGlueAddsEveryAddress ==
    ownLast.op = "AddGlue"
        => IF ownLast.name \in DOMAIN ownLast.before
           THEN LET was == ownLast.before[ownLast.name]
                    is == ownZone.glue[ownLast.name]
                IN  /\ Range(is) = Range(was) \cup Range(ownLast.addrs)
                    /\ Cardinality(Range(is)) = Len(is)
                    /\ SubSeq(is, 1, Len(was)) = was
                    /\ ownLast.ok = ~(Range(ownLast.addrs) \subseteq Range(was))
           ELSE ownZone.glue = ownLast.before /\ ~ownLast.ok

\* C17: Len() is the number of NS names plus the number of glue addresses
\* of all NS names.
LenCountsRecords ==
    ZoneLen(ownZone) = Records(ownZone)

\* C18: the TTL the zone reports and writes into the records of ExportNS is
\* the whole seconds from now to until: positive while a second or more is
\* left, 0 from the expiry on.
TTLIsResidual ==
    ownLast.op = "ExportNS"
        => LET until == ownZone.until
               at == ownLast.at
               residual == IF until = ZeroTime \/ until.s < at.s
                              \/ (until.s = at.s /\ until.ns <= at.ns)
                           THEN 0
                           ELSE until.s - at.s - (IF until.ns < at.ns THEN 1 ELSE 0)
           IN  /\ ownLast.ttl = residual
               /\ \A i \in 1..Len(ownLast.rrs) : ownLast.rrs[i].ttl = residual

\* C20: after SetTTL(ttl, half) the stored TTL is MinimumNSCacheTTL or more,
\* until is the time of the call plus the TTL, halfLife is not after until,
\* and a half that is not below the effective TTL gives half the TTL.
SetTTLFloorsAndHalves ==
    ownLast.op = "SetTTL"
        => LET eff == IF ownLast.ttl < MinimumNSCacheTTL THEN MinimumNSCacheTTL
                      ELSE ownLast.ttl
           IN  /\ ownZone.ttl >= MinimumNSCacheTTL
               /\ ownZone.ttl = eff
               /\ ownZone.until = TimeAdd(ownLast.at, Seconds(ownZone.ttl))
               /\ ownZone.halfLife.s <= ownZone.until.s
               /\ ownLast.half >= eff
                     => ownZone.halfLife = TimeAdd(ownLast.at, Seconds(eff \div 2))

\* SetTTL was called with a TTL under the minimum and a half above it
SetTTLFloored ==
    /\ ownLast.op = "SetTTL"
    /\ ownLast.ttl > 0
    /\ ownLast.ttl < MinimumNSCacheTTL
    /\ ownLast.half > MinimumNSCacheTTL

(***************************************************************************)
(* SpecZoneMu: goroutines sharing one NSCacheZone.  zmu.mu is the holder   *)
(* of zone.mu ("" when it is free); a method that locks and unlocks within *)
(* one step needs it free.  SetGlue is taken in two steps, so that what    *)
(* other goroutines do while it is inside its critical section is seen.    *)
(***************************************************************************)
\* NSCacheZone.SetGlue by a goroutine of its own (a glue sub-lookup): Lock,
\* then the write and the deferred Unlock
ZoneSetGlue ==
    /\ ~zmu.fatal
    /\ \/ /\ zmu.mu = "" /\ zmu.w = None
          /\ \E name \in {Fqdn(nsA), N(<<"ns", "net">>, TRUE)}, addrs \in {<<V4a>>, <<V6a, V4b>>} :
                zmu' = [zmu EXCEPT !.mu = "SetGlue", !.w = [name |-> name, addrs |-> addrs]]
          /\ UNCHANGED <<ownZone, ownLast>>
       \/ /\ zmu.mu = "SetGlue"
          /\ ownZone' = SetGlue(ownZone, zmu.w.name, zmu.w.addrs)
          /\ zmu' = [zmu EXCEPT !.mu = "", !.w = None]
          /\ UNCHANGED ownLast
    /\ UNCHANGED now

\* NSCacheZone.ForEachNS by another goroutine: the names are copied under
\* the lock; then, the lock released, fn is called for each name with
\* zone.glue[name].  A read of the map while SetGlue writes it is a data
\* race: it gives the old slice, or the runtime stops the program
\* ("concurrent map read and map write")
ZoneForEachNS ==
    /\ ~zmu.fatal
    /\ \/ /\ zmu.mu = "" /\ zmu.names = None
          /\ zmu' = [zmu EXCEPT !.names = [left |-> ownZone.ns]]
          /\ UNCHANGED ownLast
       \/ /\ zmu.names # None /\ zmu.names.left # <<>>
          /\ \E fatal \in {FALSE, zmu.mu = "SetGlue"} :
                zmu' = [zmu EXCEPT !.names.left = Tail(@), !.fatal = fatal]
          /\ ownLast' = [op |-> "ForEachNS", name |-> Head(zmu.names.left),
                         addrs |-> GlueOf(ownZone, Head(zmu.names.left)),
                         held |-> zmu.mu]
       \/ /\ zmu.names # None /\ zmu.names.left = <<>>
          /\ zmu' = [zmu EXCEPT !.names = None]
          /\ UNCHANGED ownLast
    /\ UNCHANGED <<ownZone, now>>

\* NSCacheZone.Servers: Lock, the copy of zone.ns, and on the way out the
\* deferred call, which is zone.mu.Lock() again: the goroutine waits for
\* the mutex it holds, and nothing ever frees it
ZoneServers ==
    /\ ~zmu.fatal
    /\ zmu.mu = "" /\ zmu.servers = None
    /\ zmu' = [zmu EXCEPT !.mu = "Servers", !.servers = [ns |-> ownZone.ns]]
    /\ UNCHANGED <<ownZone, ownLast, now>>

\* NewNSCacheZone (src/cache_ns_zone.go:391-400), its mutex free
InitZoneMu ==
    /\ CacheStart(0)
    /\ SFStart(0)
    /\ IterStart(TRUE)
    /\ ownZone = NewNSCacheZone(N(<<"x", "com">>, TRUE))
    /\ ownLast = [op |-> "New"]
    /\ conv = None
    /\ zmu = [mu |-> "", w |-> None, names |-> None, servers |-> None, fatal |-> FALSE]
    /\ wp = None /\ ml = None /\ srv = None /\ pl = None

\* AddNS and AddGlue lock and unlock within their step
NextZoneMu ==
    \/ /\ zmu.mu = "" /\ ~zmu.fatal /\ ZoneAddNS
       /\ UNCHANGED <<lru, persistent, maxSize, overflow, last, pend, sfVars, iterVars, conv, goVars>>
    \/ /\ zmu.mu = "" /\ ~zmu.fatal /\ ZoneAddGlue
       /\ UNCHANGED <<lru, persistent, maxSize, overflow, last, pend, sfVars, iterVars, conv, goVars>>
    \/ /\ ZoneSetGlue
       /\ UNCHANGED <<lru, persistent, maxSize, overflow, last, pend, sfVars, iterVars, conv, wp, ml, srv, pl>>
    \/ /\ ZoneForEachNS
       /\ UNCHANGED <<lru, persistent, maxSize, overflow, last, pend, sfVars, iterVars, conv, wp, ml, srv, pl>>
    \/ /\ ZoneServers
       /\ UNCHANGED <<lru, persistent, maxSize, overflow, last, pend, sfVars, iterVars, conv, wp, ml, srv, pl>>

SpecZoneMu == InitZoneMu /\ [][NextZoneMu]_vars

\* C32: every read of the glue map of a zone happens under the mutex of the
\* zone: no goroutine reads it (ForEachNS) while another is inside the
\* critical section of a write (SetGlue).
GlueReadUnderMutex ==
    ownLast.op = "ForEachNS" => ownLast.held = "ForEachNS"

\* C33: when Servers has taken its snapshot of the NS names it leaves the
\* mutex of the zone free, so that the next operation on the zone can take
\* it.
ServersReleasesMutex ==
    zmu.servers # None => zmu.mu # "Servers"

(***************************************************************************)
(* SpecWP: one started client.WorkerPool (src/pkg/client/pool.go) with     *)
(* MaxWorkers workers, the callers of ExchangeContext and a Shutdown.      *)
(* wp.ch is the buffered channel of requests, a request being the caller   *)
(* and the number of its call; the channel of a request's reply has no     *)
(* buffer, so the worker hands the reply over only to a caller that is     *)
(* still waiting for it.                                                   *)
(***************************************************************************)
MaxWorkers == 2
MaxCalls == 2

\* WorkerPool.ExchangeContext, doExchange and submit, for a request with a
\* question: the test of IsCancelled; then the send on wp.ch inside submit
\* (a send on a closed channel panics); then the select, which ends when
\* the context of the caller is done (the reply is the worker's step)
WPExchangeContext(c) ==
    /\ ~wp.panic
    /\ \/ /\ wp.caller[c].st \in {"idle", "returned"}
          /\ wp.caller[c].n < MaxCalls
          /\ wp' = [wp EXCEPT !.caller[c] =
                        IF wp.cancelled
                        THEN [st |-> "returned", n |-> @.n + 1, res |-> "wg.Err"]
                        ELSE [st |-> "submit", n |-> @.n + 1, res |-> ""]]
       \/ /\ wp.caller[c].st = "submit"
          /\ IF wp.closed
             THEN wp' = [wp EXCEPT !.panic = TRUE]
             ELSE /\ Len(wp.ch) < MaxWorkers
                  /\ wp' = [wp EXCEPT !.ch = Append(@, [c |-> c, n |-> wp.caller[c].n]),
                                       !.caller[c].st = "wait"]
       \/ /\ wp.caller[c].st = "wait"
          /\ wp' = [wp EXCEPT !.caller[c].st = "returned", !.caller[c].res = "ctx.Err"]

\* WorkerPool.run: the worker takes a request from wp.ch and exchanges it
\* with the wrapped client; then it sends the reply on the channel of the
\* request, which needs the caller in its select; when wp.ch is closed and
\* empty the loop ends
WPRun(w) ==
    /\ ~wp.panic
    /\ \/ /\ wp.worker[w].st = "idle" /\ wp.ch # <<>>
          /\ wp' = [wp EXCEPT !.ch = Tail(@),
                               !.worker[w] = [st |-> "reply", req |-> Head(wp.ch)]]
       \/ /\ wp.worker[w].st = "reply"
          /\ LET r == wp.worker[w].req
             IN  /\ wp.caller[r.c].st = "wait" /\ wp.caller[r.c].n = r.n
                 /\ wp' = [wp EXCEPT !.worker[w] = [st |-> "idle", req |-> None],
                                      !.caller[r.c].st = "returned",
                                      !.caller[r.c].res = "reply"]
       \/ /\ wp.worker[w].st = "idle" /\ wp.ch = <<>> /\ wp.closed
          /\ wp' = [wp EXCEPT !.worker[w].st = "exited"]

\* WorkerPool.Shutdown, or the end of the context given to Start: doCancel
\* sets wp.cancelled and closes wp.ch
WPShutdown ==
    /\ ~wp.panic
    /\ ~wp.cancelled
    /\ wp' = [wp EXCEPT !.cancelled = TRUE, !.closed = TRUE]

\* NewWorkerPool and Start (src/pkg/client/pool.go:137-147, 214-231)
InitWP ==
    /\ CacheStart(0)
    /\ SFStart(0)
    /\ IterStart(TRUE)
    /\ ownZone = NewNSCacheZone(EmptyName)
    /\ ownLast = None
    /\ conv = None
    /\ wp = [ch |-> <<>>, closed |-> FALSE, cancelled |-> FALSE, panic |-> FALSE,
             worker |-> [w \in 1..MaxWorkers |-> [st |-> "idle", req |-> None]],
             caller |-> [c \in Callers |-> [st |-> "idle", n |-> 0, res |-> ""]]]
    /\ zmu = None /\ ml = None /\ srv = None /\ pl = None

NextWP ==
    \/ /\ \E c \in Callers : WPExchangeContext(c)
       /\ UNCHANGED <<cacheVars, sfVars, iterVars, zoneVars, conv, zmu, ml, srv, pl>>
    \/ /\ \E w \in 1..MaxWorkers : WPRun(w)
       /\ UNCHANGED <<cacheVars, sfVars, iterVars, zoneVars, conv, zmu, ml, srv, pl>>
    \/ /\ WPShutdown
       /\ UNCHANGED <<cacheVars, sfVars, iterVars, zoneVars, conv, zmu, ml, srv, pl>>

SpecWP == InitWP /\ [][NextWP]_vars

\* C36: no worker is stuck with a reply: a worker that holds the reply to a
\* request has the caller of that request waiting for it, so it hands the
\* reply over and serves again.
WorkerNeverStuck ==
    \A w \in 1..MaxWorkers :
        wp.worker[w].st = "reply"
            => LET r == wp.worker[w].req
               IN  wp.caller[r.c].st = "wait" /\ wp.caller[r.c].n = r.n

\* C37: ExchangeContext never sends on the closed request channel,
\* whatever Shutdown does meanwhile.
NoSendOnClosedChannel ==
    ~wp.panic

(***************************************************************************)
(* SpecMulti: one MultiLookuper.Lookup (src/multiple.go) over MaxLookupers *)
(* lookupers.  ml.h is where each lookupOne goroutine is, ml.caller where  *)
(* Lookup is; ch has no buffer, so a lookupOne hands its message over only *)
(* to the Lookup that waits in first := <-ch.                              *)
(***************************************************************************)
MaxLookupers == 3

\* MultiLookuper.lookupOne: h.Lookup ends with a message or with an error
\* (after the cancel of ctx2 as well: a lookuper may have had its answer
\* already); a message is sent on out, which takes a receiver
MLLookupOne(i) ==
    \/ /\ ml.h[i] = "run"
       /\ \E st \in {"send", "failed"} : ml' = [ml EXCEPT !.h[i] = st]
    \/ /\ ml.h[i] = "send" /\ ml.caller = "wait"
       /\ ml' = [ml EXCEPT !.h[i] = "done", !.caller = "first"]

\* MultiLookuper.Lookup after it has started its goroutines: the receive
\* from the closed ch (nil), close(done) and the return; the goroutine
\* that waits for done and cancels ctx2; the goroutine that waits for the
\* WaitGroup of the lookupOne goroutines and closes ch
MLLookup ==
    \/ /\ ml.caller = "wait" /\ ml.closer = "done"
       /\ ml' = [ml EXCEPT !.caller = "nil"]
    \/ /\ ml.caller \in {"first", "nil"}
       /\ ml' = [ml EXCEPT !.caller = "returned", !.ret = ml.caller, !.done = TRUE]
    \/ /\ ml.canceller = "wait" /\ ml.done
       /\ ml' = [ml EXCEPT !.canceller = "done"]
    \/ /\ ml.closer = "wait" /\ \A i \in 1..MaxLookupers : ml.h[i] \in {"done", "failed"}
       /\ ml' = [ml EXCEPT !.closer = "done"]

\* Lookup has made ctx2, done and ch and has started every goroutine
InitMulti ==
    /\ CacheStart(0)
    /\ SFStart(0)
    /\ IterStart(TRUE)
    /\ ownZone = NewNSCacheZone(EmptyName)
    /\ ownLast = None
    /\ conv = None
    /\ ml = [caller |-> "wait", ret |-> "", done |-> FALSE, canceller |-> "wait",
             closer |-> "wait", h |-> [i \in 1..MaxLookupers |-> "run"]]
    /\ zmu = None /\ wp = None /\ srv = None /\ pl = None

NextMulti ==
    \/ /\ \E i \in 1..MaxLookupers : MLLookupOne(i)
       /\ UNCHANGED <<cacheVars, sfVars, iterVars, zoneVars, conv, zmu, wp, srv, pl>>
    \/ /\ MLLookup
       /\ UNCHANGED <<cacheVars, sfVars, iterVars, zoneVars, conv, zmu, wp, srv, pl>>

SpecMulti == InitMulti /\ [][NextMulti]_vars

\* C38: when Lookup has returned, no goroutine it started is left where it
\* can never end: none waits to send its message on ch, which nobody
\* receives from any more.
LookupLeavesNoGoroutine ==
    ml.caller = "returned" => \A i \in 1..MaxLookupers : ml.h[i] # "send"

(***************************************************************************)
(* SpecServer: one server.Server (src/pkg/server/server.go) that serves on *)
(* MaxListeners listeners, and the callers of ShutdownWithTimeout.         *)
(* srv.workers counts the goroutines of the errgroup that still run,       *)
(* srv.mu is the caller that holds the mutex (0: nobody), srv.call is      *)
(* where each caller is and srv.waiter where the goroutine of its call is; *)
(* waitCh has no buffer.                                                   *)
(***************************************************************************)
MaxListeners == 2

\* Server.spawnOne: once the server is cancelled a worker of the errgroup
\* ends
SrvWorkerEnds ==
    /\ ~srv.panic
    /\ srv.cancelled /\ srv.workers > 0
    /\ srv' = [srv EXCEPT !.workers = @ - 1]

\* Server.ShutdownWithTimeout by caller c: under srv.mu the cancel; with
\* wait = 0 the return; with wait > 0 waitCh, the goroutine that sends
\* srv.eg.Wait() on it and the select, which ends on the timer or on the
\* value of the goroutine; the deferred close(waitCh) and Unlock.  The
\* goroutine: eg.Wait() returns when no worker runs, then the send, which
\* takes the caller in its select and panics on the closed channel
SrvShutdownWithTimeout(c) ==
    /\ ~srv.panic
    /\ \/ /\ srv.call[c] = "idle" /\ srv.mu = 0
          /\ \E wait \in {0, 1} :
                srv' = [srv EXCEPT !.cancelled = TRUE,
                                   !.mu = IF wait > 0 THEN c ELSE 0,
                                   !.call[c] = IF wait > 0 THEN "select" ELSE "nil",
                                   !.waiter[c] = IF wait > 0 THEN "eg.Wait" ELSE @]
       \/ /\ srv.call[c] = "select"
          /\ srv' = [srv EXCEPT !.call[c] = "timed out", !.waitCh[c] = "closed", !.mu = 0]
       \/ /\ srv.waiter[c] = "eg.Wait" /\ srv.workers = 0
          /\ srv' = [srv EXCEPT !.waiter[c] = "send"]
       \/ /\ srv.waiter[c] = "send"
          /\ IF srv.waitCh[c] = "closed"
             THEN srv' = [srv EXCEPT !.panic = TRUE]
             ELSE /\ srv.call[c] = "select"
                  /\ srv' = [srv EXCEPT !.waiter[c] = "done", !.call[c] = "eg.Wait",
                                        !.waitCh[c] = "closed", !.mu = 0]

\* Server.Spawn has started the workers, two for each listener
InitServer ==
    /\ CacheStart(0)
    /\ SFStart(0)
    /\ IterStart(TRUE)
    /\ ownZone = NewNSCacheZone(EmptyName)
    /\ ownLast = None
    /\ conv = None
    /\ \E n \in 1..MaxListeners :
         srv = [workers |-> 2 * n, cancelled |-> FALSE, mu |-> 0, panic |-> FALSE,
                call |-> [c \in Callers |-> "idle"],
                waiter |-> [c \in Callers |-> "none"],
                waitCh |-> [c \in Callers |-> "open"]]
    /\ zmu = None /\ wp = None /\ ml = None /\ pl = None

NextServer ==
    \/ /\ SrvWorkerEnds
       /\ UNCHANGED <<cacheVars, sfVars, iterVars, zoneVars, conv, zmu, wp, ml, pl>>
    \/ /\ \E c \in Callers : SrvShutdownWithTimeout(c)
       /\ UNCHANGED <<cacheVars, sfVars, iterVars, zoneVars, conv, zmu, wp, ml, pl>>

SpecServer == InitServer /\ [][NextServer]_vars

\* C39: a ShutdownWithTimeout that returned on its timeout causes no panic
\* later: the goroutine that reports the end of the workers does not send
\* on the closed channel.
ShutdownTimeoutNoPanic ==
    ~srv.panic

(***************************************************************************)
(* SpecPool: one Pool.ExchangeWithClient (src/unnamed/part_015) of a Pool  *)
(* with Attempts in 1..MaxAttempts and Interval 0 or positive.  pl.n is    *)
(* the counter of the loop, pl.started the number of doExchangeCh          *)
(* goroutines started (each makes one exchange on the wire), pl.running    *)
(* those still in their exchange, pl.keepers and pl.others those that wait *)
(* to send their result on ch (which has no buffer), pl.pc where the       *)
(* caller is and pl.closed whether ch is closed.                           *)
(***************************************************************************)
MaxAttempts == 3

\* Pool.next: [ok, n] for the counter n; a negative n is unlimited
next(n) ==
    IF n < 0 THEN [ok |-> TRUE, n |-> n]
    ELSE IF n = 0 THEN [ok |-> FALSE, n |-> n]
    ELSE [ok |-> TRUE, n |-> n - 1]

\* Pool.doExchangeCh: the exchange ends with a result that is a keeper or
\* not; the send waits for the caller, and on the closed channel the panic
\* is recovered and the goroutine ends
doExchangeCh ==
    \/ /\ pl.running > 0
       /\ \/ pl' = [pl EXCEPT !.running = @ - 1, !.keepers = @ + 1]
          \/ pl' = [pl EXCEPT !.running = @ - 1, !.others = @ + 1]
    \/ /\ pl.closed /\ pl.keepers + pl.others > 0
       /\ pl' = [pl EXCEPT !.keepers = 0, !.others = 0]

\* Pool.ExchangeWithClient of a request with a question.  PoolSpawn is the
\* record pl after a go doExchangeCh (spawnExchangeCh) with the caller
\* moved to pc, PoolReturn the record after the return of the caller and
\* its deferred close(ch).
\* doExchangeWithClient: the choice of the mode from Attempts and Interval.
\* doExchangeOnce: one exchange, and its result or the end of the context.
\* doExchangeWait: each turn of the loop starts one exchange and waits for
\* its result or for the end of the context.
\* doExchangeInterval, with the first exchange started before the loop:
\* each turn of the loop takes a result, the end of the context or a tick,
\* which starts another exchange.
\* waitExchangeInterval, after the loop: results until a keeper, the end of
\* the context or the end of all the goroutines
PoolExchangeWithClient ==
    LET PoolSpawn(p, pc) ==
            [p EXCEPT !.started = @ + 1, !.running = @ + 1, !.pc = pc]
        PoolReturn(p) ==
            [p EXCEPT !.pc = "returned", !.closed = TRUE]
        doExchangeWithClient ==
            /\ pl.pc = "start"
            /\ LET n == pl.attempts
                   t == pl.interval
               IN  pl' = IF n = 0 \/ n = 1 THEN PoolSpawn(pl, "once")
                         ELSE IF t > 0 THEN PoolSpawn([pl EXCEPT !.n = n], "interval")
                         ELSE [pl EXCEPT !.n = n, !.pc = "wait"]
        doExchangeOnce ==
            /\ pl.pc = "once"
            /\ \/ pl' = PoolReturn(pl)
               \/ pl.keepers > 0 /\ pl' = PoolReturn([pl EXCEPT !.keepers = @ - 1])
               \/ pl.others > 0 /\ pl' = PoolReturn([pl EXCEPT !.others = @ - 1])
        doExchangeWait ==
            \/ /\ pl.pc = "wait"
               /\ LET nx == next(pl.n)
                  IN  pl' = IF nx.ok THEN PoolSpawn([pl EXCEPT !.n = nx.n], "wait select")
                            ELSE PoolReturn(pl)
            \/ /\ pl.pc = "wait select"
               /\ \/ pl' = PoolReturn(pl)
                  \/ pl.keepers > 0 /\ pl' = PoolReturn([pl EXCEPT !.keepers = @ - 1])
                  \/ pl.others > 0 /\ pl' = [pl EXCEPT !.others = @ - 1, !.pc = "wait"]
        doExchangeInterval ==
            /\ pl.pc = "interval"
            /\ LET nx == next(pl.n)
                   p == [pl EXCEPT !.n = nx.n]
               IN  IF ~nx.ok THEN pl' = [pl EXCEPT !.pc = "waitExchangeInterval"]
                   ELSE \/ pl.keepers > 0 /\ pl' = PoolReturn([p EXCEPT !.keepers = @ - 1])
                        \/ pl.others > 0 /\ pl' = [p EXCEPT !.others = @ - 1]
                        \/ pl' = PoolReturn(p)
                        \/ pl' = PoolSpawn(p, "interval")
        waitExchangeInterval ==
            /\ pl.pc = "waitExchangeInterval"
            /\ \/ pl.keepers > 0 /\ pl' = PoolReturn([pl EXCEPT !.keepers = @ - 1])
               \/ pl.others > 0 /\ pl' = [pl EXCEPT !.others = @ - 1]
               \/ pl' = PoolReturn(pl)
               \/ pl.running + pl.keepers + pl.others = 0 /\ pl' = PoolReturn(pl)
    IN  \/ doExchangeWithClient
        \/ doExchangeOnce
        \/ doExchangeWait
        \/ doExchangeInterval
        \/ waitExchangeInterval

\* NewPoolExchanger and the fields Attempts and Interval set by the user
InitPool ==
    /\ CacheStart(0)
    /\ SFStart(0)
    /\ IterStart(TRUE)
    /\ ownZone = NewNSCacheZone(EmptyName)
    /\ ownLast = None
    /\ conv = None
    /\ \E n \in 1..MaxAttempts, t \in {0, 1} :
         pl = [attempts |-> n, interval |-> t, pc |-> "start", n |-> 0,
               started |-> 0, running |-> 0, keepers |-> 0, others |-> 0,
               closed |-> FALSE]
    /\ zmu = None /\ wp = None /\ ml = None /\ srv = None

NextPool ==
    \/ /\ PoolExchangeWithClient
       /\ UNCHANGED <<cacheVars, sfVars, iterVars, zoneVars, conv, zmu, wp, ml, srv>>
    \/ /\ doExchangeCh
       /\ UNCHANGED <<cacheVars, sfVars, iterVars, zoneVars, conv, zmu, wp, ml, srv>>

SpecPool == InitPool /\ [][NextPool]_vars

\* C40: one Exchange of a Pool with Attempts = n >= 1 starts at most n
\* exchanges on the wire, with Interval = 0 and with Interval > 0.
AtMostAttemptsExchanges ==
    pl.started <= pl.attempts

(***************************************************************************)
(* SpecErrors: the conversions of package errors, applied to the messages  *)
(* and the errors the package handles; the sanitizer of delegations        *)
(* (src/cache_ns_zone.go), applied to the responses a server can send; and *)
(* newManualZone (src/iterator.go), applied to the names and the servers a *)
(* caller of AddServer or AddFrom can give                                 *)
(***************************************************************************)
MaxRRs == 2

\* sanitizePureDelegation without the test of the authority
sanitizePureDelegationAnyOwner(resp, authority) ==
    LET isNS(rr) == rr.class = "IN" /\ rr.type = "NS"
        first == {i \in 1..Len(resp.ns) : isNS(resp.ns[i])}
        domain == IF first = {} THEN None
                  ELSE resp.ns[CHOOSE i \in first : \A j \in first : i <= j].name
        ns == SelectSeq(resp.ns, LAMBDA rr : rr.class = "IN" /\ (rr.type = "NS" => rr.name = domain))
        nsNames == {ns[i].target : i \in {j \in 1..Len(ns) : ns[j].type = "NS"}}
    IN  [resp EXCEPT !.ns = ns,
                     !.extra = SelectSeq(resp.extra, LAMBDA rr :
                                   rr.class = "IN" /\ (rr.type \in {"A", "AAAA"} => rr.name \in nsNames))]

\* sanitizePureDelegation: domain is the owner of the first NS record of
\* class INET that is within the authority; the NS records of that owner
\* stay and their targets are nsNames; of the A and AAAA records those
\* owned by one of nsNames stay; records of another class go, records of
\* another type stay
sanitizePureDelegation(resp, authority) ==
    LET isNS(rr) == rr.class = "IN" /\ rr.type = "NS"
        first == {i \in 1..Len(resp.ns) :
                     isNS(resp.ns[i]) /\ IsSubDomain(authority, resp.ns[i].name)}
        domain == IF first = {} THEN None
                  ELSE resp.ns[CHOOSE i \in first : \A j \in first : i <= j].name
        ns == SelectSeq(resp.ns, LAMBDA rr : rr.class = "IN" /\ (rr.type = "NS" => rr.name = domain))
        nsNames == {ns[i].target : i \in {j \in 1..Len(ns) : ns[j].type = "NS"}}
    IN  [resp EXCEPT !.ns = ns,
                     !.extra = SelectSeq(resp.extra, LAMBDA rr :
                                   rr.class = "IN" /\ (rr.type \in {"A", "AAAA"} => rr.name \in nsNames))]

\* sanitizeDelegation: a response with an answer only loses the NS records
\* of class INET whose owner is outside the authority
sanitizeDelegation(resp, authority) ==
    IF resp.answer = <<>>
    THEN sanitizePureDelegation(resp, authority)
    ELSE [resp EXCEPT !.ns = SelectSeq(resp.ns, LAMBDA rr :
                          (rr.class = "IN" /\ rr.type = "NS") => IsSubDomain(authority, rr.name))]

\* NSCache.handleSuccess (src/cache_ns_test.go:524-530) on a response with
\* up to MaxRRs records in Authority and up to MaxRRs - 1 in Additional,
\* received from a server of the authority a.com.; what was converted
\* before has no part in it, so it is only applied first
ErrSanitize ==
    LET net == N(<<"net">>, TRUE)
        sub == N(<<"a", "com">>, TRUE)
        ns1 == N(<<"ns1", "com">>, TRUE)
        ns2 == N(<<"ns2", "net">>, TRUE)
        rr(name, type, class, target) ==
            [name |-> name, type |-> type, class |-> class, target |-> target]
        nsRRs == {rr(sub, "NS", "IN", ns1), rr(sub, "NS", "IN", ns2),
                  rr(net, "NS", "IN", ns2), rr(N(<<"A", "COM">>, TRUE), "NS", "IN", ns1),
                  rr(sub, "NS", "CH", ns2)}
        extraRRs == {rr(ns1, "A", "IN", EmptyName), rr(ns2, "AAAA", "IN", EmptyName),
                     rr(ns2, "TXT", "IN", EmptyName)}
    IN  \E authority \in {sub}, answer \in {<<>>, <<"CNAME">>},
           n \in 0..MaxRRs, e \in 0..(MaxRRs - 1) :
          \E ns \in [1..n -> nsRRs], extra \in [1..e -> extraRRs] :
            LET resp == [answer |-> answer, ns |-> ns, extra |-> extra]
            IN  /\ conv = None
                /\ conv' = [op |-> "sanitizeDelegation", authority |-> authority, r |-> resp,
                             out |-> IF \E i \in 1..n : ns[i].type = "NS"
                                     THEN sanitizeDelegation(resp, authority)
                                     ELSE resp]

\* ValidateResponse is called, for no response or a response and for no
\* error, a *net.DNSError or an error of another type
ErrValidate ==
    \E server \in {"", "192.0.2.1:53"},
       r \in {None} \cup
             [q : {EmptyName, N(<<"a", "com">>, TRUE)}, tc : BOOLEAN,
              rcode : DOMAIN RcodeToString, aa : BOOLEAN, answer : {<<>>, <<"A">>},
              auth : {<<>>}],
       err \in {None, [Err |-> "EOF"],
                DNSError("request timed out", EmptyName, "", {"timeout"})} :
        conv' = [op |-> "ValidateResponse", server |-> server, r |-> r, err |-> err,
                 out |-> ValidateResponse(server, r, err)]

\* ErrorAsMsg is called, for no request or a request and for no error, an
\* error of the package (ErrNotFound, ErrTypeNotFound, ErrBadRequest,
\* ErrBadResponse, ErrNotImplemented, ErrTimeoutMessage, those MsgAsError
\* makes) or an error of another type
ErrConvert ==
    LET name == N(<<"a", "com">>, TRUE)
    IN  \E req \in {None, newResponseRcode(None, 0),
                     [newResponseRcode(None, 0) EXCEPT !.q = name]},
           err \in {None, [Err |-> "EOF"],
                    DNSError(ErrText.NXDOMAIN, name, "", {"notfound"}),
                    DNSError(ErrText.NODATA, name, "", {"notfound"}),
                    DNSError(ErrText.BADREQUEST, EmptyName, "", {"temporary"}),
                    DNSError(ErrText.BADRESPONSE, EmptyName, "", {"temporary"}),
                    DNSError(ErrText.NOTIMPLEMENTED, name, "", {}),
                    DNSError(ErrText.NOANSWER, EmptyName, "", {"temporary"}),
                    DNSError(ErrText.TRUNCATED, name, "", {"temporary"}),
                    DNSError("request timed out", name, "", {"timeout", "temporary"})}
                   \cup {DNSError(RcodeToString[i], name, "", {}) :
                            i \in DOMAIN RcodeToString \ {StringToRcode("NOERROR").rcode}} :
            conv' = [op |-> "ErrorAsMsg", req |-> req, err |-> err,
                     out |-> ErrorAsMsg(req, err)]

\* IteratorLookuper.AddServer and AddFrom up to the zone newManualZone
\* returns, for a name with or without the trailing dot and one or two
\* servers; as for the sanitizer, it is only applied first
ManualZone ==
    \E qName \in {Root, N(<<"com">>, TRUE), N(<<"com">>, FALSE), N(<<"x", "com">>, FALSE)},
       servers \in {<<V4a>>, <<V6a>>, <<V4a, V4b>>, <<V4a, V6a>>} :
        /\ conv = None
        /\ conv' = [op |-> "newManualZone", qName |-> qName, servers |-> servers,
                     out |-> newManualZone(qName, servers)]

InitErrors ==
    /\ CacheStart(0)
    /\ SFStart(0)
    /\ IterStart(TRUE)
    /\ ownZone = NewNSCacheZone(EmptyName)
    /\ ownLast = None
    /\ conv = None
    /\ zmu = None /\ wp = None /\ ml = None /\ srv = None /\ pl = None

NextErrors ==
    \/ ErrValidate /\ UNCHANGED <<cacheVars, sfVars, iterVars, zoneVars, goVars>>
    \/ ErrConvert /\ UNCHANGED <<cacheVars, sfVars, iterVars, zoneVars, goVars>>
    \/ ErrSanitize /\ UNCHANGED <<cacheVars, sfVars, iterVars, zoneVars, goVars>>
    \/ ManualZone /\ UNCHANGED <<cacheVars, sfVars, iterVars, zoneVars, goVars>>

SpecErrors == InitErrors /\ [][NextErrors]_vars

\* C26: with a nil transport error ValidateResponse classifies in this
\* order: no response is NOANSWER (temporary); TC set is TRUNCATED
\* (temporary) whatever the rcode; SUCCESS with an empty Answer and AA set is
\* NODATA (not found); any other SUCCESS is no error; NXDOMAIN is NXDOMAIN
\* (not found); any other rcode is an error named after the rcode.
ValidatePrecedence ==
    (conv # None /\ conv.op = "ValidateResponse" /\ conv.err = None)
        => LET r == conv.r
               e == conv.out
           IN  IF r = None
               THEN e # None /\ e.Err = ErrText.NOANSWER /\ e.IsTemporary
               ELSE IF r.tc
               THEN e # None /\ e.Err = ErrText.TRUNCATED /\ e.IsTemporary
               ELSE IF RcodeToString[r.rcode] = "NOERROR" /\ r.answer = <<>> /\ r.aa
               THEN e # None /\ e.Err = ErrText.NODATA /\ e.IsNotFound
               ELSE IF RcodeToString[r.rcode] = "NOERROR"
               THEN e = None
               ELSE IF RcodeToString[r.rcode] = "NXDOMAIN"
               THEN e # None /\ e.Err = ErrText.NXDOMAIN /\ e.IsNotFound
               ELSE e # None /\ e.Err = RcodeToString[r.rcode]

\* a truncated NXDOMAIN response was classified TRUNCATED
ValidatedTruncatedNameError ==
    /\ conv # None /\ conv.op = "ValidateResponse" /\ conv.err = None
    /\ conv.r # None /\ conv.r.tc /\ RcodeToString[conv.r.rcode] = "NXDOMAIN"
    /\ conv.out # None /\ conv.out.Err = ErrText.TRUNCATED

\* C27: for every error of the package, MsgAsError of the message
\* ErrorAsMsg made of it is an error of the same kind (the same Err).
ErrorsRoundTrip ==
    (conv # None /\ conv.op = "ErrorAsMsg" /\ conv.err # None /\ "Name" \in DOMAIN conv.err
        /\ conv.err.Err \in {ErrText.NOANSWER, ErrText.NODATA, ErrText.NXDOMAIN, ErrText.TRUNCATED, ErrText.BADREQUEST, ErrText.BADRESPONSE,
                              ErrText.NOTIMPLEMENTED}
                             \cup {RcodeToString[i] : i \in DOMAIN RcodeToString})
        => /\ MsgAsError(conv.out) # None
           /\ MsgAsError(conv.out).Err = conv.err.Err

ManualZoneNeverPanics ==
    (conv # None /\ conv.op = "newManualZone")
        => /\ ~conv.out.panic
           /\ conv.out.ok
           /\ \A i \in 1..Len(conv.servers) :
                 LET name == Fqdn(FakeNS(conv.qName, i - 1))
                 IN  /\ name \in DOMAIN conv.out.zone.glue
                     /\ conv.out.zone.glue[name] = <<conv.servers[i]>>

=============================================================================
